---- MODULE Spec2Model ----
(***************************************************************************)
(* Model of the spreadsheet grid engine: the sparse DataManager store, the *)
(* commands that mutate it and the CommandManager undo/redo stack.         *)
(*                                                                         *)
(* Objects that the code shares by reference (Cell, Row, Column) live in   *)
(* heaps indexed by an object id; a reference is an id.  An object that no *)
(* map, sequence or command refers to any more is dropped from its heap,   *)
(* which is what the garbage collector does and is not observable.         *)
(***************************************************************************)
EXTENDS Integers, Sequences, FiniteSets, TLC

(***************************************************************************)
(* Bounds of the model.                                                    *)
(***************************************************************************)
\* hard ceiling of the store (DataManager maxRows / maxColumns), scaled down
MaxRows == 3
MaxCols == 2
\* number of command objects a client creates in one behaviour
MaxCmds == 3
\* largest history size a client configures
MaxHistory == 2
\* the records one run of processChunk writes (chunkSize, 1000 in the program)
ChunkSize == 1

\* rows / columns the store is constructed with
InitRows == MaxRows - 1
InitCols == MaxCols

(***************************************************************************)
(* Program constants.                                                      *)
(***************************************************************************)
DefaultHeight == 25
MinHeight == 20
MaxHeight == 2000
DefaultWidth == 100
MinWidth == 40
MaxWidth == 2000
DefaultFontSize == 14

\* a second height / width a resize can set
TallHeight == DefaultHeight + 15
WideWidth == DefaultWidth + 20

Min(a, b) == IF a < b THEN a ELSE b
Max(a, b) == IF a > b THEN a ELSE b

\* Row: this._height = Math.max(minHeight, Math.min(value, maxHeight))
ClampHeight(v) == Max(MinHeight, Min(v, MaxHeight))
\* Column: this._width = Math.max(minWidth, Math.min(value, maxWidth))
ClampWidth(v) == Max(MinWidth, Min(v, MaxWidth))

(***************************************************************************)
(* Cell values.  A value that starts with '=' is handed to parseFormula.   *)
(***************************************************************************)
\* "=x" and "=" have no '(' : formula.split('(')[1] is undefined and
\* parseFormula throws a TypeError.  "==(A1,A1)" parses; its operator "="
\* matches no function, so parseFormula returns the operator text "=".
Formulas == {"=x", "=", "==(A1,A1)"}
StartsWithEq(v) == v \in Formulas
ParseFormulaThrows(v) == v \in {"=x", "="}
ParseFormula(v) == IF v = "==(A1,A1)" THEN "=" ELSE v

\* null in a field that holds text or a boolean (alignment, bold, italic)
Null == "null"
\* null in the numeric fontSize field
NullSize == 0 - 1

\* new Cell(row, col, value)
NewCell(row, col, value) ==
    [row |-> row, col |-> col, value |-> value, fontSize |-> DefaultFontSize,
     horizontalAlignment |-> "left", verticalAlignment |-> "middle",
     isBold |-> Null, isItalic |-> Null]

\* an allocator that hands out the same object every time
FreshIdReused(heap) == 1

\* the smallest object id a heap does not use
FreshId(heap) == CHOOSE i \in 1..(Cardinality(DOMAIN heap) + 1) :
                    /\ i \notin DOMAIN heap
                    /\ \A j \in 1..(i - 1) : j \in DOMAIN heap

\* heap with object id bound to obj (a new binding or an update)
Put(heap, id, obj) == [i \in (DOMAIN heap) \cup {id} |-> IF i = id THEN obj ELSE heap[i]]

\* f without the keys in ks
Without(f, ks) == [k \in (DOMAIN f) \ ks |-> f[k]]

EmptyMap == [k \in {} |-> 0]

(***************************************************************************)
(* DataManager.  A store is a record                                       *)
(*   cells    : key <<row, col>> -> Cell id     (the sparse _cells map)    *)
(*   cellObjs : Cell id -> Cell                                            *)
(*   rows     : sequence of Row ids, rowObjs : Row id -> [index, height]   *)
(*   columns  : sequence of Column ids, colObjs : id -> [index, width]     *)
(*   rowCount, columnCount                                                 *)
(***************************************************************************)

RECURSIVE PushRows(_, _)
\* ensureCapacity, row loop: push new Row(rowCount) while below required and max
PushRows(s, requiredRows) ==
    IF s.rowCount < requiredRows /\ s.rowCount < MaxRows
    THEN LET id == FreshId(s.rowObjs) IN
         PushRows([s EXCEPT !.rowObjs = Put(s.rowObjs, id,
                                  [index |-> s.rowCount, height |-> DefaultHeight]),
                            !.rows = Append(s.rows, id),
                            !.rowCount = s.rowCount + 1], requiredRows)
    ELSE s

RECURSIVE PushColumns(_, _)
\* ensureCapacity, column loop
PushColumns(s, requiredCols) ==
    IF s.columnCount < requiredCols /\ s.columnCount < MaxCols
    THEN LET id == FreshId(s.colObjs) IN
         PushColumns([s EXCEPT !.colObjs = Put(s.colObjs, id,
                                  [index |-> s.columnCount, width |-> DefaultWidth]),
                               !.columns = Append(s.columns, id),
                               !.columnCount = s.columnCount + 1], requiredCols)
    ELSE s

EnsureCapacity(s, requiredRows, requiredCols) ==
    PushColumns(PushRows(s, requiredRows), requiredCols)

\* new DataManager(initialRows, initialColumns, MaxRows, MaxCols)
NewDataManager(initialRows, initialColumns) ==
    EnsureCapacity([cells |-> EmptyMap, cellObjs |-> EmptyMap,
                    rows |-> <<>>, rowObjs |-> EmptyMap,
                    columns |-> <<>>, colObjs |-> EmptyMap,
                    rowCount |-> 0, columnCount |-> 0],
                   initialRows, initialColumns)

\* a bounds test without the maxima
InMaxBoundsLoose(row, col) == row >= 0 /\ col >= 0

InMaxBounds(row, col) == row >= 0 /\ row < MaxRows /\ col >= 0 /\ col < MaxCols

GetCellValue(s, row, col) ==
    IF ~InMaxBounds(row, col) THEN ""
    ELSE IF <<row, col>> \in DOMAIN s.cells
         THEN s.cellObjs[s.cells[<<row, col>>]].value
         ELSE ""

\* getCell: the stored Cell, or a transient default Cell that is not stored
GetCell(s, row, col) ==
    IF <<row, col>> \in DOMAIN s.cells
    THEN s.cellObjs[s.cells[<<row, col>>]]
    ELSE NewCell(row, col, "")

\* setCellValue: the result is [dm, threw]; threw is parseFormula's TypeError
SetCellValue(s, row, col, value) ==
    IF ~InMaxBounds(row, col) THEN [dm |-> s, threw |-> FALSE]
    ELSE LET key == <<row, col>>
             Store(g, v) ==
                 IF value = ""
                 THEN [dm |-> [g EXCEPT !.cells = Without(g.cells, {key})], threw |-> FALSE]
                 ELSE IF StartsWithEq(value) /\ ParseFormulaThrows(value)
                 THEN [dm |-> g, threw |-> TRUE]
                 ELSE IF key \in DOMAIN g.cells
                 THEN [dm |-> [g EXCEPT !.cellObjs[g.cells[key]].value = v],
                       threw |-> FALSE]
                 ELSE [dm |-> [g EXCEPT !.cellObjs = Put(g.cellObjs, FreshId(g.cellObjs),
                                                         NewCell(row, col, v)),
                                        !.cells = Put(g.cells, key, FreshId(g.cellObjs))],
                       threw |-> FALSE]
         IN Store(EnsureCapacity(s, row + 1, col + 1),
                  IF StartsWithEq(value) THEN ParseFormula(value) ELSE value)

\* a shift that leaves the cells of the line at index where they are
ShiftKeyInsertStrict(key, axis, index) ==
    IF key[axis] > index
    THEN (IF axis = 1 THEN <<key[1] + 1, key[2]>> ELSE <<key[1], key[2] + 1>>)
    ELSE key

\* the key a stored cell moves to when the row / column at index is inserted
ShiftKeyInsert(key, axis, index) ==
    IF key[axis] >= index
    THEN (IF axis = 1 THEN <<key[1] + 1, key[2]>> ELSE <<key[1], key[2] + 1>>)
    ELSE key

\* a shift that leaves every key where it is
ShiftKeyDeleteStay(key, axis, index) == key

\* the key a stored cell moves to when the row / column at index is deleted
ShiftKeyDelete(key, axis, index) ==
    IF key[axis] > index
    THEN (IF axis = 1 THEN <<key[1] - 1, key[2]>> ELSE <<key[1], key[2] - 1>>)
    ELSE key

\* a shift that stores copies of the moved cells (new objects with the new
\* coordinate) and leaves the original objects as they were
InsertShiftCopies(s, axis, index) ==
    LET newKeys == {ShiftKeyInsert(k, axis, index) : k \in DOMAIN s.cells}
        old(nk) == CHOOSE k \in DOMAIN s.cells : ShiftKeyInsert(k, axis, index) = nk
        moved == {s.cells[k] : k \in {x \in DOMAIN s.cells : x[axis] >= index}}
        copy(i) == i + MaxRows * MaxCols
    IN [s EXCEPT !.cells = [nk \in newKeys |->
                              IF s.cells[old(nk)] \in moved
                              THEN copy(s.cells[old(nk)]) ELSE s.cells[old(nk)]],
                 !.cellObjs = [j \in (DOMAIN s.cellObjs) \cup {copy(i) : i \in moved} |->
                                 IF j \in DOMAIN s.cellObjs THEN s.cellObjs[j]
                                 ELSE [s.cellObjs[j - MaxRows * MaxCols] EXCEPT
                                          !.row = IF axis = 1 THEN @ + 1 ELSE @,
                                          !.col = IF axis = 2 THEN @ + 1 ELSE @]]]

\* the rebuilt _cells map and the Cell objects after setRow / setCol on the
\* shifted cells (axis 1 = row, 2 = column)
InsertShift(s, axis, index) ==
    LET newKeys == {ShiftKeyInsert(k, axis, index) : k \in DOMAIN s.cells}
        old(nk) == CHOOSE k \in DOMAIN s.cells : ShiftKeyInsert(k, axis, index) = nk
        moved == {s.cells[k] : k \in {x \in DOMAIN s.cells : x[axis] >= index}}
    IN [s EXCEPT !.cells = [nk \in newKeys |-> s.cells[old(nk)]],
                 !.cellObjs = [i \in DOMAIN s.cellObjs |->
                                 IF i \in moved
                                 THEN (IF axis = 1
                                       THEN [s.cellObjs[i] EXCEPT !.row = @ + 1]
                                       ELSE [s.cellObjs[i] EXCEPT !.col = @ + 1])
                                 ELSE s.cellObjs[i]]]

DeleteShift(s, axis, index) ==
    LET kept == {k \in DOMAIN s.cells : k[axis] # index}
        newKeys == {ShiftKeyDelete(k, axis, index) : k \in kept}
        old(nk) == CHOOSE k \in kept : ShiftKeyDelete(k, axis, index) = nk
        moved == {s.cells[k] : k \in {x \in kept : x[axis] > index}}
    IN [s EXCEPT !.cells = [nk \in newKeys |-> s.cells[old(nk)]],
                 !.cellObjs = [i \in DOMAIN s.cellObjs |->
                                 IF i \in moved
                                 THEN (IF axis = 1
                                       THEN [s.cellObjs[i] EXCEPT !.row = @ - 1]
                                       ELSE [s.cellObjs[i] EXCEPT !.col = @ - 1])
                                 ELSE s.cellObjs[i]]]

\* seq with x spliced in at 0-based position index
SpliceIn(seq, index, x) ==
    SubSeq(seq, 1, index) \o <<x>> \o SubSeq(seq, index + 1, Len(seq))

\* a splice that removes the last element whatever the index
SpliceOutLast(seq, index) == SubSeq(seq, 1, Len(seq) - 1)

\* seq without the element at 0-based position index
SpliceOut(seq, index) ==
    SubSeq(seq, 1, index) \o SubSeq(seq, index + 2, Len(seq))

\* no setIndex at all
ReindexNone(objs, seq, from) == objs

\* setIndex(i) on the records at 0-based positions from..end of the sequence
Reindex(objs, seq, from) ==
    [i \in DOMAIN objs |->
        IF \E p \in 1..Len(seq) : seq[p] = i /\ p - 1 >= from
        THEN [objs[i] EXCEPT !.index = (CHOOSE p \in 1..Len(seq) : seq[p] = i) - 1]
        ELSE objs[i]]

\* insertRow(index): the result is [dm, ok]
InsertRow(s, index) ==
    IF index < 0 \/ index > s.rowCount \/ s.rowCount >= MaxRows
    THEN [dm |-> s, ok |-> FALSE]
    ELSE LET Link(g, id, rs) ==
                 [dm |-> [g EXCEPT !.rows = rs,
                                   !.rowObjs = Reindex(Put(g.rowObjs, id,
                                                  [index |-> index, height |-> DefaultHeight]),
                                                  rs, index + 1),
                                   !.rowCount = s.rowCount + 1],
                  ok |-> TRUE]
             Splice(g, id) == Link(g, id, SpliceIn(g.rows, index, id))
             Shifted(g) == Splice(g, FreshId(g.rowObjs))
         IN Shifted(InsertShift(s, 1, index))

\* insertColumn(index)
InsertColumn(s, index) ==
    IF index < 0 \/ index > s.columnCount \/ s.columnCount >= MaxCols
    THEN [dm |-> s, ok |-> FALSE]
    ELSE LET Link(g, id, cs) ==
                 [dm |-> [g EXCEPT !.columns = cs,
                                   !.colObjs = Reindex(Put(g.colObjs, id,
                                                  [index |-> index, width |-> DefaultWidth]),
                                                  cs, index + 1),
                                   !.columnCount = s.columnCount + 1],
                  ok |-> TRUE]
             Splice(g, id) == Link(g, id, SpliceIn(g.columns, index, id))
             Shifted(g) == Splice(g, FreshId(g.colObjs))
         IN Shifted(InsertShift(s, 2, index))

\* a deleteRow that accepts the index one past the last row
DeleteRowPastEnd(s, index) ==
    IF index < 0 \/ index > s.rowCount \/ s.rowCount <= 1
    THEN [dm |-> s, ok |-> FALSE]
    ELSE LET Unlink(g, rs) ==
                 [dm |-> [g EXCEPT !.rows = rs,
                                   !.rowObjs = Reindex(g.rowObjs, rs, index),
                                   !.rowCount = s.rowCount - 1],
                  ok |-> TRUE]
             Shifted(g) == Unlink(g, SpliceOut(g.rows, index))
         IN Shifted(DeleteShift(s, 1, index))

\* deleteRow(index)
DeleteRow(s, index) ==
    IF index < 0 \/ index >= s.rowCount \/ s.rowCount <= 1
    THEN [dm |-> s, ok |-> FALSE]
    ELSE LET Unlink(g, rs) ==
                 [dm |-> [g EXCEPT !.rows = rs,
                                   !.rowObjs = Reindex(g.rowObjs, rs, index),
                                   !.rowCount = s.rowCount - 1],
                  ok |-> TRUE]
             Shifted(g) == Unlink(g, SpliceOut(g.rows, index))
         IN Shifted(DeleteShift(s, 1, index))

\* deleteColumn(index)
DeleteColumn(s, index) ==
    IF index < 0 \/ index >= s.columnCount \/ s.columnCount <= 1
    THEN [dm |-> s, ok |-> FALSE]
    ELSE LET Unlink(g, cs) ==
                 [dm |-> [g EXCEPT !.columns = cs,
                                   !.colObjs = Reindex(g.colObjs, cs, index),
                                   !.columnCount = s.columnCount - 1],
                  ok |-> TRUE]
             Shifted(g) == Unlink(g, SpliceOut(g.columns, index))
         IN Shifted(DeleteShift(s, 2, index))

\* setCellHorizontalAlignment: the cell is kept unless value is empty and
\* fontSize, horizontalAlignment and verticalAlignment are all null
SetCellHorizontalAlignment(s, row, col, alignment) ==
    IF ~InMaxBounds(row, col) THEN s
    ELSE LET key == <<row, col>>
             Keep(g, id, cell) ==
                 IF cell.value = "" /\ cell.fontSize = NullSize
                    /\ cell.horizontalAlignment = Null /\ cell.verticalAlignment = Null
                 THEN [g EXCEPT !.cells = Without(g.cells, {key})]
                 ELSE [g EXCEPT !.cellObjs = Put(g.cellObjs, id, cell),
                                !.cells = Put(g.cells, key, id)]
             Align(g) ==
                 IF key \in DOMAIN g.cells
                 THEN Keep(g, g.cells[key],
                           [g.cellObjs[g.cells[key]] EXCEPT !.horizontalAlignment = alignment])
                 ELSE Keep(g, FreshId(g.cellObjs),
                           [NewCell(row, col, "") EXCEPT !.horizontalAlignment = alignment])
         IN Align(EnsureCapacity(s, row + 1, col + 1))

\* setBold: getCell(row, col)!.bold = isbold; on an absent coordinate the
\* write lands on the transient cell.  Out of the maximum bounds getCell
\* returns null and the write throws.
SetBold(s, row, col, isbold) ==
    IF ~InMaxBounds(row, col) THEN [dm |-> s, threw |-> TRUE]
    ELSE IF <<row, col>> \in DOMAIN s.cells
    THEN [dm |-> [s EXCEPT !.cellObjs[s.cells[<<row, col>>]].isBold =
                                IF isbold THEN "true" ELSE "false"],
          threw |-> FALSE]
    ELSE [dm |-> s, threw |-> FALSE]

\* Row.height setter on the Row object id (an orphaned Row is not in rows)
SetRowHeight(s, id, value) ==
    IF id \in DOMAIN s.rowObjs
    THEN [s EXCEPT !.rowObjs[id].height = ClampHeight(value)]
    ELSE s

\* Column.width setter on the Column object id
SetColumnWidth(s, id, value) ==
    IF id \in DOMAIN s.colObjs
    THEN [s EXCEPT !.colObjs[id].width = ClampWidth(value)]
    ELSE s

\* getCellsInRange: references to the stored cells of the rectangle, row-major
RECURSIVE CellsInRange(_, _, _, _, _, _)
CellsInRange(s, row, col, startCol, endRow, endCol) ==
    IF row > endRow THEN <<>>
    ELSE IF col > endCol THEN CellsInRange(s, row + 1, startCol, startCol, endRow, endCol)
    ELSE (IF <<row, col>> \in DOMAIN s.cells THEN <<s.cells[<<row, col>>]>> ELSE <<>>)
         \o CellsInRange(s, row, col + 1, startCol, endRow, endCol)

GetCellsInRange(s, startRow, startCol, endRow, endCol) ==
    CellsInRange(s, startRow, startCol, startCol, endRow, endCol)
(***************************************************************************)
(* Commands.  A command is a record with a kind and the fields of its      *)
(* class; execute and undo return [dm, cmd, ret]: the store and the        *)
(* command object after the call, and ret = "true", "false" or "throw"     *)
(* (an exception leaves the call).                                         *)
(***************************************************************************)
Result(s, c, ret) == [dm |-> s, cmd |-> c, ret |-> ret]

\* data.forEach(cell => setCellValue(cell.row, cell.col, cell[field])); the
\* loop stops at the first write that throws
RECURSIVE WriteAll(_, _, _)
WriteAll(s, writes, i) ==
    IF i > Len(writes) THEN [dm |-> s, threw |-> FALSE]
    ELSE LET Rest(w) == IF w.threw THEN w ELSE WriteAll(w.dm, writes, i + 1)
         IN Rest(SetCellValue(s, writes[i].row, writes[i].col, writes[i].value))

Write(row, col, value) == [row |-> row, col |-> col, value |-> value]

\* CellEditCommand over an array of {row, col, oldValue, newValue}
CellEditExecute(c, s) ==
    LET Done(w) == Result(w.dm, c, IF w.threw THEN "false" ELSE "true")
    IN Done(WriteAll(s, [i \in 1..Len(c.data) |->
                 Write(c.data[i].row, c.data[i].col, c.data[i].newValue)], 1))

CellEditUndo(c, s) ==
    LET Done(w) == Result(w.dm, c, IF w.threw THEN "false" ELSE "true")
    IN Done(WriteAll(s, [i \in 1..Len(c.data) |->
                 Write(c.data[i].row, c.data[i].col, c.data[i].oldValue)], 1))

\* CellEditCommand of one cell (row, col, newValue, oldValue)
CellEdit1Execute(c, s) ==
    LET Done(w) == Result(w.dm, c, IF w.threw THEN "false" ELSE "true")
    IN Done(SetCellValue(s, c.row, c.col, c.newValue))

CellEdit1Undo(c, s) ==
    LET Done(w) == Result(w.dm, c, IF w.threw THEN "false" ELSE "true")
    IN Done(SetCellValue(s, c.row, c.col, c.oldValue))

\* ClearCellsCommand.execute: the loop over _cellsToClear
RECURSIVE ClearLoop(_, _, _, _)
ClearLoop(s, refs, i, cleared) ==
    IF i > Len(refs) THEN [dm |-> s, cleared |-> cleared]
    ELSE LET Clear(oldValue) ==
                 ClearLoop(SetCellValue(s, refs[i][1], refs[i][2], "").dm, refs, i + 1,
                           IF oldValue # ""
                           THEN Append(cleared, [row |-> refs[i][1], col |-> refs[i][2],
                                                 oldValue |-> oldValue])
                           ELSE cleared)
         IN Clear(GetCellValue(s, refs[i][1], refs[i][2]))

ClearCellsExecute(c, s) ==
    IF Len(c.cellsToClear) = 0 THEN Result(s, c, "true")
    ELSE LET Done(r) == Result(r.dm, [c EXCEPT !.clearedData = r.cleared], "true")
         IN Done(ClearLoop(s, c.cellsToClear, 1, <<>>))

\* ClearCellsCommand.undo has no try: a throwing setCellValue leaves the call
ClearCellsUndo(c, s) ==
    IF Len(c.clearedData) = 0 THEN Result(s, c, "true")
    ELSE LET Done(w) == Result(w.dm, c, IF w.threw THEN "throw" ELSE "true")
         IN Done(WriteAll(s, [i \in 1..Len(c.clearedData) |->
                      Write(c.clearedData[i].row, c.clearedData[i].col,
                            c.clearedData[i].oldValue)], 1))

\* setCellValueOfRow / setCellValueOfColumn over an array of Cell references:
\* row, col and value are read from the referenced objects
CellWrites(s, data) ==
    [i \in 1..Len(data) |->
        Write(s.cellObjs[data[i]].row, s.cellObjs[data[i]].col, s.cellObjs[data[i]].value)]

\* RowsColumnsEditCommand.execute
RowsColumnsEditExecute(c, s) ==
    LET Done(r) == Result(r.dm, c, IF r.ok THEN "true" ELSE "false")
    IN Done(IF c.operation = "insert"
            THEN (IF c.type = "column" THEN InsertColumn(s, c.index) ELSE InsertRow(s, c.index))
            ELSE (IF c.type = "column" THEN DeleteColumn(s, c.index) ELSE DeleteRow(s, c.index)))

\* RowsColumnsEditCommand.undo: after the insert that undoes a delete, the
\* values of _data are written whether or not the insert succeeded
RowsColumnsEditUndo(c, s) ==
    LET Done(r) == Result(r.dm, c, IF r.ok THEN "true" ELSE "false")
        Written(r, w) ==
            Result(w.dm, c, IF w.threw THEN "false" ELSE IF r.ok THEN "true" ELSE "false")
        Restore(r) == Written(r, WriteAll(r.dm, CellWrites(r.dm, c.data), 1))
    IN IF c.operation = "insert"
       THEN Done(IF c.type = "column" THEN DeleteColumn(s, c.index) ELSE DeleteRow(s, c.index))
       ELSE Restore(IF c.type = "column" THEN InsertColumn(s, c.index) ELSE InsertRow(s, c.index))

\* the absent _deletedData / headerData
NoData == [set |-> FALSE]
NoHeader == NullSize

\* the copies DeleteRowColumnCommand.execute pushes: new Cell(row, col, value, ...)
\* of the non-empty cells of the row (axis 1) or column (axis 2), in index order
RECURSIVE CopyLine(_, _, _, _, _)
CopyLine(s, axis, index, k, count) ==
    IF k >= count THEN <<>>
    ELSE LET row == IF axis = 1 THEN index ELSE k
             col == IF axis = 1 THEN k ELSE index
             cell == GetCell(s, row, col)
         IN (IF cell.value # "" THEN <<Write(cell.row, cell.col, cell.value)>> ELSE <<>>)
            \o CopyLine(s, axis, index, k + 1, count)

\* DeleteRowColumnCommand.execute
DeleteRowColumnExecute(c, s) ==
    IF c.index < 0 THEN Result(s, c, "false")
    ELSE LET blank == [set |-> TRUE, type |-> c.type, index |-> c.index,
                       cells |-> <<>>, headerData |-> NoHeader]
             Done(d, r) == Result(r.dm, [c EXCEPT !.deletedData = d],
                                  IF r.ok THEN "true" ELSE "false")
         IN IF c.type = "row"
            THEN IF c.index >= s.rowCount
                 THEN Result(s, [c EXCEPT !.deletedData = blank], "false")
                 ELSE Done([blank EXCEPT
                              !.cells = CopyLine(s, 1, c.index, 0, s.columnCount),
                              !.headerData = ClampHeight(s.rowObjs[s.rows[c.index + 1]].height)],
                           DeleteRow(s, c.index))
            ELSE IF c.index >= s.columnCount
                 THEN Result(s, [c EXCEPT !.deletedData = blank], "false")
                 ELSE Done([blank EXCEPT
                              !.cells = CopyLine(s, 2, c.index, 0, s.rowCount),
                              !.headerData = ClampWidth(s.colObjs[s.columns[c.index + 1]].width)],
                           DeleteColumn(s, c.index))

\* DeleteRowColumnCommand.undo: no try around the value writes
DeleteRowColumnUndo(c, s) ==
    IF ~c.deletedData.set THEN Result(s, c, "false")
    ELSE LET d == c.deletedData
             Done(w) == Result(w.dm, c, IF w.threw THEN "throw" ELSE "true")
             Values(h) == Done(WriteAll(h, [i \in 1..Len(d.cells) |->
                              IF d.type = "row"
                              THEN Write(d.index, d.cells[i].col, d.cells[i].value)
                              ELSE Write(d.cells[i].row, d.index, d.cells[i].value)], 1))
             Header(r) ==
                 IF ~r.ok THEN Result(r.dm, c, "false")
                 ELSE IF d.headerData = NoHeader THEN Values(r.dm)
                 ELSE IF d.type = "row"
                 THEN Values(SetRowHeight(r.dm, r.dm.rows[d.index + 1], d.headerData))
                 ELSE Values(SetColumnWidth(r.dm, r.dm.columns[d.index + 1], d.headerData))
         IN Header(IF d.type = "row" THEN InsertRow(s, d.index) ELSE InsertColumn(s, d.index))

\* InsertRowCommand
InsertRowExecute(c, s) ==
    LET Done(r) == Result(r.dm, c, IF r.ok THEN "true" ELSE "false")
    IN Done(InsertRow(s, c.rowIndex))

InsertRowUndo(c, s) ==
    LET Done(r) == Result(r.dm, c, IF r.ok THEN "true" ELSE "false")
    IN Done(DeleteRow(s, c.rowIndex))

\* InsertColumnCommand
InsertColumnExecute(c, s) ==
    LET Done(r) == Result(r.dm, c, IF r.ok THEN "true" ELSE "false")
    IN Done(InsertColumn(s, c.colIndex))

InsertColumnUndo(c, s) ==
    LET Done(r) == Result(r.dm, c, IF r.ok THEN "true" ELSE "false")
    IN Done(DeleteColumn(s, c.colIndex))

\* ResizeCommand on the Row / Column object target
ResizeExecute(c, s) ==
    Result(IF c.type = "column" THEN SetColumnWidth(s, c.target, c.newSize)
           ELSE SetRowHeight(s, c.target, c.newSize), c, "true")

ResizeUndo(c, s) ==
    Result(IF c.type = "column" THEN SetColumnWidth(s, c.target, c.oldSize)
           ELSE SetRowHeight(s, c.target, c.oldSize), c, "true")

\* An ICommand a client implements: execute() and undo() touch no store and
\* end as the client wrote them (return true, return false, or throw)
ClientExecute(c, s) == Result(s, c, c.onExecute)
ClientUndo(c, s) == Result(s, c, c.onUndo)

\* execute() / undo() of a command that is not a CommandGroup
LeafExecute(c, s) ==
    CASE c.kind = "CellEdit" -> CellEditExecute(c, s)
      [] c.kind = "CellEdit1" -> CellEdit1Execute(c, s)
      [] c.kind = "ClearCells" -> ClearCellsExecute(c, s)
      [] c.kind = "RowsColumnsEdit" -> RowsColumnsEditExecute(c, s)
      [] c.kind = "DeleteRowColumn" -> DeleteRowColumnExecute(c, s)
      [] c.kind = "InsertRow" -> InsertRowExecute(c, s)
      [] c.kind = "InsertColumn" -> InsertColumnExecute(c, s)
      [] c.kind = "Resize" -> ResizeExecute(c, s)
      [] c.kind = "Client" -> ClientExecute(c, s)

LeafUndo(c, s) ==
    CASE c.kind = "CellEdit" -> CellEditUndo(c, s)
      [] c.kind = "CellEdit1" -> CellEdit1Undo(c, s)
      [] c.kind = "ClearCells" -> ClearCellsUndo(c, s)
      [] c.kind = "RowsColumnsEdit" -> RowsColumnsEditUndo(c, s)
      [] c.kind = "DeleteRowColumn" -> DeleteRowColumnUndo(c, s)
      [] c.kind = "InsertRow" -> InsertRowUndo(c, s)
      [] c.kind = "InsertColumn" -> InsertColumnUndo(c, s)
      [] c.kind = "Resize" -> ResizeUndo(c, s)
      [] c.kind = "Client" -> ClientUndo(c, s)
(***************************************************************************)
(* CommandGroup.  _commands is the sequence of sub-commands (none of them  *)
(* a group: the class is private to the CommandManager module);            *)
(* executedCommands / undonCommands hold positions of _commands, since     *)
(* they hold references to the same command objects.  The loops of execute *)
(* also return, as undone, the positions undo() was called on during the   *)
(* rollback, in call order.                                                *)
(***************************************************************************)
\* the catch block of CommandGroup.execute: undo() on executedCommands[j]
\* down to the first, each in its own try
RECURSIVE RollbackCaught(_, _, _, _)
RollbackCaught(cmds, executed, j, s) ==
    IF j < 1 THEN [dm |-> s, cmds |-> cmds, undone |-> <<>>]
    ELSE LET Logged(b) == [b EXCEPT !.undone = <<executed[j]>> \o @]
             Rest(u) ==
                 RollbackCaught([cmds EXCEPT ![executed[j]] = u.cmd], executed, j - 1, u.dm)
         IN Logged(Rest(LeafUndo(cmds[executed[j]], s)))

\* the rollback loop of the else branch of CommandGroup.execute: it sits
\* inside the outer try, so an undo() that throws there enters the catch
\* block, which starts over from the last executed command
RECURSIVE RollbackPlain(_, _, _, _)
RollbackPlain(cmds, executed, j, s) ==
    IF j < 1 THEN [dm |-> s, cmds |-> cmds, undone |-> <<>>]
    ELSE LET Logged(b) == [b EXCEPT !.undone = <<executed[j]>> \o @]
             Rest(u, cs) ==
                 IF u.ret = "throw"
                 THEN RollbackCaught(cs, executed, Len(executed), u.dm)
                 ELSE RollbackPlain(cs, executed, j - 1, u.dm)
             Undone(u) == Rest(u, [cmds EXCEPT ![executed[j]] = u.cmd])
         IN Logged(Undone(LeafUndo(cmds[executed[j]], s)))

RECURSIVE GroupExecuteLoop(_, _, _, _)
GroupExecuteLoop(cmds, i, executed, s) ==
    IF i > Len(cmds)
    THEN [dm |-> s, cmds |-> cmds, ret |-> "true", executed |-> executed, undone |-> <<>>]
    ELSE LET Failed(b) == [dm |-> b.dm, cmds |-> b.cmds, ret |-> "false",
                           executed |-> executed, undone |-> b.undone]
             Rest(r, cs) ==
                 IF r.ret = "true"
                 THEN GroupExecuteLoop(cs, i + 1, Append(executed, i), r.dm)
                 ELSE IF r.ret = "false"
                 THEN Failed(RollbackPlain(cs, executed, Len(executed), r.dm))
                 ELSE Failed(RollbackCaught(cs, executed, Len(executed), r.dm))
             Executed(r) == Rest(r, [cmds EXCEPT ![i] = r.cmd])
         IN Executed(LeafExecute(cmds[i], s))

\* CommandGroup.execute
GroupExecute(c, s) ==
    LET Done(r) == Result(r.dm, [c EXCEPT !.commands = r.cmds], r.ret)
    IN Done(GroupExecuteLoop(c.commands, 1, <<>>, s))

\* the catch block of CommandGroup.undo: execute() on every command of
\* undonCommands, in forward order, each in its own try
RECURSIVE ReexecuteCaught(_, _, _, _)
ReexecuteCaught(cmds, undone, j, s) ==
    IF j > Len(undone) THEN [dm |-> s, cmds |-> cmds]
    ELSE LET Rest(e) ==
                 ReexecuteCaught([cmds EXCEPT ![undone[j]] = e.cmd], undone, j + 1, e.dm)
         IN Rest(LeafExecute(cmds[undone[j]], s))

\* the re-execute loop of the else branch of CommandGroup.undo, inside the
\* outer try
RECURSIVE ReexecutePlain(_, _, _, _)
ReexecutePlain(cmds, undone, j, s) ==
    IF j > Len(undone) THEN [dm |-> s, cmds |-> cmds]
    ELSE LET Rest(e, cs) ==
                 IF e.ret = "throw"
                 THEN ReexecuteCaught(cs, undone, 1, e.dm)
                 ELSE ReexecutePlain(cs, undone, j + 1, e.dm)
             Executed(e) == Rest(e, [cmds EXCEPT ![undone[j]] = e.cmd])
         IN Executed(LeafExecute(cmds[undone[j]], s))

RECURSIVE GroupUndoLoop(_, _, _, _)
GroupUndoLoop(cmds, i, undone, s) ==
    IF i < 1 THEN [dm |-> s, cmds |-> cmds, ret |-> "true"]
    ELSE LET Failed(b) == [dm |-> b.dm, cmds |-> b.cmds, ret |-> "false"]
             Rest(u, cs) ==
                 IF u.ret = "true"
                 THEN GroupUndoLoop(cs, i - 1, <<i>> \o undone, u.dm)
                 ELSE IF u.ret = "false"
                 THEN Failed(ReexecutePlain(cs, undone, 1, u.dm))
                 ELSE Failed(ReexecuteCaught(cs, undone, 1, u.dm))
             Undone(u) == Rest(u, [cmds EXCEPT ![i] = u.cmd])
         IN Undone(LeafUndo(cmds[i], s))

\* CommandGroup.undo
GroupUndo(c, s) ==
    LET Done(r) == Result(r.dm, [c EXCEPT !.commands = r.cmds], r.ret)
    IN Done(GroupUndoLoop(c.commands, Len(c.commands), <<>>, s))

\* ICommand.execute() / ICommand.undo() by dynamic dispatch
Execute(c, s) == IF c.kind = "Group" THEN GroupExecute(c, s) ELSE LeafExecute(c, s)
Undo(c, s) == IF c.kind = "Group" THEN GroupUndo(c, s) ELSE LeafUndo(c, s)

(***************************************************************************)
(* Reachability of objects.                                                *)
(***************************************************************************)
SeqRange(seq) == {seq[i] : i \in 1..Len(seq)}

\* the Cell objects a command holds references to
LeafCellRefs(c) == IF c.kind = "RowsColumnsEdit" THEN SeqRange(c.data) ELSE {}
CellRefs(c) ==
    IF c.kind = "Group"
    THEN UNION {LeafCellRefs(c.commands[i]) : i \in 1..Len(c.commands)}
    ELSE LeafCellRefs(c)

\* the Row (type "row") / Column (type "column") objects a command refers to
LeafLineRefs(c, type) == IF c.kind = "Resize" /\ c.type = type THEN {c.target} ELSE {}
LineRefs(c, type) ==
    IF c.kind = "Group"
    THEN UNION {LeafLineRefs(c.commands[i], type) : i \in 1..Len(c.commands)}
    ELSE LeafLineRefs(c, type)

\* the store with the objects dropped that neither the store nor a command
\* of cmds (a sequence) refers to
Collect(s, cmds) ==
    LET cellKeep == {s.cells[k] : k \in DOMAIN s.cells}
                      \cup UNION {CellRefs(cmds[i]) : i \in 1..Len(cmds)}
        rowKeep == SeqRange(s.rows) \cup UNION {LineRefs(cmds[i], "row") : i \in 1..Len(cmds)}
        colKeep == SeqRange(s.columns)
                      \cup UNION {LineRefs(cmds[i], "column") : i \in 1..Len(cmds)}
    IN [s EXCEPT !.cellObjs = [i \in (DOMAIN s.cellObjs) \cap cellKeep |-> s.cellObjs[i]],
                 !.rowObjs = [i \in (DOMAIN s.rowObjs) \cap rowKeep |-> s.rowObjs[i]],
                 !.colObjs = [i \in (DOMAIN s.colObjs) \cap colKeep |-> s.colObjs[i]]]
(***************************************************************************)
(* Construction of commands.  id numbers the command objects a client      *)
(* creates (sub-commands of a group carry the id of their group).          *)
(***************************************************************************)
\* new CellEditCommand(dataManager, [{oldValue, newValue, row, col}, ...])
MkCellEdit(id, data) == [kind |-> "CellEdit", id |-> id, data |-> data]

\* new CellEditCommand(dataManager, row, col, newValue, oldValue)
MkCellEdit1(id, row, col, newValue, oldValue) ==
    [kind |-> "CellEdit1", id |-> id, row |-> row, col |-> col,
     newValue |-> newValue, oldValue |-> oldValue]

\* new ClearCellsCommand(dataManager, cellsToClear)
MkClearCells(id, cellsToClear) ==
    [kind |-> "ClearCells", id |-> id, cellsToClear |-> cellsToClear, clearedData |-> <<>>]

\* new RowsColumnsEditCommand(dataManager, type, index, operation, data); an
\* omitted data is [new Cell(8000, 8000)], whose write-back is out of the
\* maximum bounds and changes nothing: the empty sequence stands for it
MkRowsColumnsEdit(id, type, index, operation, data) ==
    [kind |-> "RowsColumnsEdit", id |-> id, type |-> type, index |-> index,
     operation |-> operation, data |-> data]

\* new DeleteRowColumnCommand(dataManager, type, index)
MkDeleteRowColumn(id, type, index) ==
    [kind |-> "DeleteRowColumn", id |-> id, type |-> type, index |-> index,
     deletedData |-> NoData]

\* new InsertRowCommand(dataManager, rowIndex)
MkInsertRow(id, rowIndex) == [kind |-> "InsertRow", id |-> id, rowIndex |-> rowIndex]

\* new InsertColumnCommand(dataManager, colIndex)
MkInsertColumn(id, colIndex) == [kind |-> "InsertColumn", id |-> id, colIndex |-> colIndex]

\* new ResizeCommand(target, newSize) on rows[index] / columns[index] of s:
\* _oldSize is read from the target at construction
MkResize(id, s, type, index, newSize) ==
    [kind |-> "Resize", id |-> id, type |-> type,
     target |-> IF type = "column" THEN s.columns[index + 1] ELSE s.rows[index + 1],
     newSize |-> newSize,
     oldSize |-> IF type = "column" THEN s.colObjs[s.columns[index + 1]].width
                 ELSE s.rowObjs[s.rows[index + 1]].height]

\* a client's own ICommand
MkClient(id, onExecute, onUndo) ==
    [kind |-> "Client", id |-> id, onExecute |-> onExecute, onUndo |-> onUndo]

\* new CommandGroup(commands, description)
MkGroup(id, commands) == [kind |-> "Group", id |-> id, commands |-> commands]

\* Canvas.commitCellEdit: an edit of one cell, oldValue read from the store
EditOf(id, s, row, col, value) ==
    MkCellEdit(id, <<[row |-> row, col |-> col,
                      oldValue |-> GetCellValue(s, row, col), newValue |-> value]>>)

\* the delete-row / delete-column toolbar handlers: _data is
\* getCellsInRange over the row / column, up to and including the count
DeleteLineOf(id, s, type, index) ==
    MkRowsColumnsEdit(id, type, index, "delete",
        IF type = "row" THEN GetCellsInRange(s, index, 0, index, s.columnCount)
        ELSE GetCellsInRange(s, 0, index, s.rowCount, index))

\* new CellRange(...), were the corners stored as given
NewCellRangeAsGiven(startRow, startCol, endRow, endCol) ==
    [startCol |-> startCol, endRow |-> endRow,
     endCol |-> endCol, startRow |-> startRow,
     isColumnSelection |-> FALSE, isRowSelection |-> FALSE]

(***************************************************************************)
(* CellRange and Selection.  A CellRange is a record of its six fields.  A *)
(* Selection is a record                                                   *)
(*   ranges      : sequence of CellRange ids        (_ranges)              *)
(*   activeRange : a CellRange id, or 0 for null    (_activeRange)         *)
(*   multiSelect : BOOLEAN                          (_multiSelect)         *)
(*   objs        : CellRange id -> CellRange                               *)
(* with _maxRows = MaxRows and _maxCols = MaxCols.  The CellRange records   *)
(* list their fields in the order TLC keeps them in.                       *)
(***************************************************************************)
\* new CellRange(startRow, startCol, endRow, endCol)
NewCellRange(startRow, startCol, endRow, endCol) ==
    [startCol |-> Min(startCol, endCol), endRow |-> Max(startRow, endRow),
     endCol |-> Max(startCol, endCol), startRow |-> Min(startRow, endRow),
     isColumnSelection |-> FALSE, isRowSelection |-> FALSE]

\* range.setColumnSelection(startCol, endCol, maxRows)
SetColumnSelection(range, startCol, endCol, maxRows) ==
    [startCol |-> Min(startCol, endCol), endRow |-> maxRows - 1,
     endCol |-> Max(startCol, endCol), startRow |-> 0,
     isColumnSelection |-> TRUE, isRowSelection |-> FALSE]

\* range.setRowSelection(startRow, endRow, maxCols)
SetRowSelection(range, startRow, endRow, maxCols) ==
    [startCol |-> 0, endRow |-> Max(startRow, endRow),
     endCol |-> maxCols - 1, startRow |-> Min(startRow, endRow),
     isColumnSelection |-> FALSE, isRowSelection |-> TRUE]

\* range.expandTo(row, col), were it to span from the start corner to
\* (row, col) as a new CellRange does
ExpandToCorner(range, row, col) ==
    NewCellRange(range.startRow, range.startCol, row, col)

\* range.expandTo(row, col)
ExpandTo(range, row, col) ==
    [range EXCEPT !.startRow = Min(@, row), !.endRow = Max(@, row),
                  !.startCol = Min(@, col), !.endCol = Max(@, col)]

\* range.contains(row, col)
Contains(range, row, col) ==
    row >= range.startRow /\ row <= range.endRow
        /\ col >= range.startCol /\ col <= range.endCol

\* range.setCellRange(startRow, startCol, endRow, endCol)
SetCellRange(range, startRow, startCol, endRow, endCol) ==
    [startCol |-> Min(startCol, endCol), endRow |-> Max(startRow, endRow),
     endCol |-> Max(startCol, endCol), startRow |-> Min(startRow, endRow),
     isColumnSelection |-> FALSE, isRowSelection |-> FALSE]

\* range.reset(row, col)
Reset(range, row, col) ==
    [startCol |-> col, endRow |-> row,
     endCol |-> col, startRow |-> row,
     isColumnSelection |-> FALSE, isRowSelection |-> FALSE]

\* range.isSingleCell()
IsSingleCell(range) == range.startRow = range.endRow /\ range.startCol = range.endCol

\* String.fromCharCode(n + 65) for n in 0..25, at position n + 1
Letters ==
    <<"A", "B", "C", "D", "E", "F", "G", "H", "I", "J", "K", "L", "M",
      "N", "O", "P", "Q", "R", "S", "T", "U", "V", "W", "X", "Y", "Z">>

\* the loop of getColumnLabel: while (index >= 0) the letter of index % 26
\* goes in front and index becomes floor(index / 26) - 1
RECURSIVE ColumnLabelLoop(_, _)
ColumnLabelLoop(index, label) ==
    IF index >= 0
    THEN ColumnLabelLoop((index \div 26) - 1, Letters[(index % 26) + 1] \o label)
    ELSE label

\* getColumnLabel(index) of CellRange, Column.getLabel() of the column index
GetColumnLabel(index) == ColumnLabelLoop(index, "")

\* Row.getLabel() of the row index, (row + 1).toString() in getRangeString
GetRowLabel(index) == ToString(index + 1)

\* range.getRangeString()
GetRangeString(range) ==
    IF IsSingleCell(range)
    THEN GetColumnLabel(range.startCol) \o GetRowLabel(range.startRow)
    ELSE IF range.isColumnSelection
    THEN (IF GetColumnLabel(range.startCol) = GetColumnLabel(range.endCol)
          THEN GetColumnLabel(range.startCol)
          ELSE GetColumnLabel(range.startCol) \o ":" \o GetColumnLabel(range.endCol))
    ELSE IF range.isRowSelection
    THEN (IF GetRowLabel(range.startRow) = GetRowLabel(range.endRow)
          THEN GetRowLabel(range.startRow)
          ELSE GetRowLabel(range.startRow) \o ":" \o GetRowLabel(range.endRow))
    ELSE GetColumnLabel(range.startCol) \o GetRowLabel(range.startRow) \o ":"
             \o GetColumnLabel(range.endCol) \o GetRowLabel(range.endRow)

\* clearSelection()
ClearSelection(sel) == [sel EXCEPT !.ranges = <<>>, !.activeRange = 0]

\* the CellRange a select call constructs; a call is
\* [op, row, col, endRow, endCol, addToSelection]
RangeOf(call) ==
    IF call.op = "selectCell" THEN NewCellRange(call.row, call.col, call.row, call.col)
    ELSE IF call.op = "selectRange"
    THEN NewCellRange(call.row, call.col, call.endRow, call.endCol)
    ELSE IF call.op = "selectColumn"
    THEN SetColumnSelection(NewCellRange(0, call.col, 0, call.col),
                            call.col, call.col, MaxRows)
    ELSE IF call.op = "selectColumnRange"
    THEN SetColumnSelection(NewCellRange(0, call.col, 0, call.col),
                            call.col, call.endCol, MaxRows)
    ELSE IF call.op = "selectRow"
    THEN SetRowSelection(NewCellRange(call.row, 0, call.row, 0),
                         call.row, call.row, MaxCols)
    ELSE SetRowSelection(NewCellRange(call.row, 0, call.row, 0),
                         call.row, call.endRow, MaxCols)

\* selectCell, selectRange, selectColumn, selectColumnRange, selectRow and
\* selectRowRange: the range is constructed, the selection cleared unless
\* addToSelection and _multiSelect, the range pushed and made active;
\* selectRowRange sets _multiSelect = true before the test
Select(sel, call) ==
    LET Push(g, id) == [g EXCEPT !.ranges = Append(g.ranges, id), !.activeRange = id,
                                 !.objs = Put(sel.objs, id, RangeOf(call))]
        Mode(g) == Push(IF ~call.addToSelection \/ ~g.multiSelect
                        THEN ClearSelection(g) ELSE g,
                        FreshId(sel.objs))
    IN Mode(IF call.op = "selectRowRange" THEN [sel EXCEPT !.multiSelect = TRUE] ELSE sel)

\* a call of selectCell(row, col, addToSelection)
SelectCellCall(row, col, addToSelection) ==
    [op |-> "selectCell", row |-> row, col |-> col, endRow |-> row, endCol |-> col,
     addToSelection |-> addToSelection]

\* new Selection(MaxRows, MaxCols)
NewSelection ==
    Select([ranges |-> <<>>, activeRange |-> 0, multiSelect |-> FALSE, objs |-> EmptyMap],
           SelectCellCall(0, 0, FALSE))

\* the multiSelect setter, were it to drop every range when switched off
SetMultiSelectDropsAll(sel, enabled) ==
    IF ~enabled /\ Len(sel.ranges) > 1
    THEN [sel EXCEPT !.multiSelect = enabled, !.ranges = <<>>]
    ELSE [sel EXCEPT !.multiSelect = enabled]

\* the multiSelect setter
SetMultiSelect(sel, enabled) ==
    IF ~enabled /\ Len(sel.ranges) > 1
    THEN [sel EXCEPT !.multiSelect = enabled,
                     !.ranges = IF sel.activeRange # 0 THEN <<sel.activeRange>> ELSE <<>>]
    ELSE [sel EXCEPT !.multiSelect = enabled]

\* extendSelection(row, col)
ExtendSelection(sel, row, col) ==
    IF sel.activeRange = 0 THEN Select(sel, SelectCellCall(row, col, FALSE))
    ELSE [sel EXCEPT !.objs[sel.activeRange] = ExpandTo(@, row, col)]

\* removeRange(index)
RemoveRange(sel, index) ==
    IF index >= 0 /\ index < Len(sel.ranges)
    THEN LET Spliced(rs) ==
                 [sel EXCEPT !.ranges = rs,
                             !.activeRange =
                                 IF sel.activeRange = sel.ranges[index + 1]
                                 THEN (IF Len(rs) > 0 THEN rs[Len(rs)] ELSE 0)
                                 ELSE sel.activeRange]
         IN Spliced(SpliceOut(sel.ranges, index))
    ELSE sel

\* toggleCell(row, col)
ToggleCell(sel, row, col) ==
    LET found == {i \in 1..Len(sel.ranges) : Contains(sel.objs[sel.ranges[i]], row, col)}
    IN IF found # {}
       THEN RemoveRange(sel, (CHOOSE i \in found : \A j \in found : i <= j) - 1)
       ELSE Select(sel, SelectCellCall(row, col, TRUE))

\* isSelected(row, col)
IsSelected(sel, row, col) ==
    \E i \in 1..Len(sel.ranges) : Contains(sel.objs[sel.ranges[i]], row, col)

\* isColumnSelected(col)
IsColumnSelected(sel, col) ==
    \E i \in 1..Len(sel.ranges) :
        sel.objs[sel.ranges[i]].isColumnSelection
            /\ col >= sel.objs[sel.ranges[i]].startCol /\ col <= sel.objs[sel.ranges[i]].endCol

\* isRowSelected(row), were a range that spans every column to count as well
IsRowSelectedByWidth(sel, row) ==
    \E i \in 1..Len(sel.ranges) :
        (sel.objs[sel.ranges[i]].isRowSelection
             \/ (sel.objs[sel.ranges[i]].startCol = 0
                    /\ sel.objs[sel.ranges[i]].endCol = MaxCols - 1))
            /\ row >= sel.objs[sel.ranges[i]].startRow /\ row <= sel.objs[sel.ranges[i]].endRow

\* isRowSelected(row)
IsRowSelected(sel, row) ==
    \E i \in 1..Len(sel.ranges) :
        sel.objs[sel.ranges[i]].isRowSelection
            /\ row >= sel.objs[sel.ranges[i]].startRow /\ row <= sel.objs[sel.ranges[i]].endRow

\* the generator of getCellCoordinates, were the columns the outer loop
RECURSIVE CoordinatesFromByColumn(_, _, _)
CoordinatesFromByColumn(range, row, col) ==
    IF col > range.endCol THEN <<>>
    ELSE IF row > range.endRow THEN CoordinatesFromByColumn(range, range.startRow, col + 1)
    ELSE <<[row |-> row, col |-> col]>> \o CoordinatesFromByColumn(range, row + 1, col)

\* the generator of range.getCellCoordinates() from the loop position
\* (row, col) on: rows outside, columns inside
RECURSIVE CoordinatesFrom(_, _, _)
CoordinatesFrom(range, row, col) ==
    IF row > range.endRow THEN <<>>
    ELSE IF col > range.endCol THEN CoordinatesFrom(range, row + 1, range.startCol)
    ELSE <<[row |-> row, col |-> col]>> \o CoordinatesFrom(range, row, col + 1)

\* range.getCellCoordinates(), as the sequence it yields
GetCellCoordinates(range) == CoordinatesFrom(range, range.startRow, range.startCol)

\* the inner loop of getSelectedCells: push the cells of one range until
\* count >= maxCells
RECURSIVE PushCells(_, _, _)
PushCells(cells, coordinates, maxCells) ==
    IF coordinates = <<>> \/ Len(cells) >= maxCells THEN cells
    ELSE PushCells(Append(cells, Head(coordinates)), Tail(coordinates), maxCells)

\* the outer loop of getSelectedCells from the range at 1-based position i
RECURSIVE SelectedCellsLoop(_, _, _, _)
SelectedCellsLoop(sel, maxCells, i, cells) ==
    IF i > Len(sel.ranges) THEN cells
    ELSE LET After(c) == IF Len(c) >= maxCells THEN c
                         ELSE SelectedCellsLoop(sel, maxCells, i + 1, c)
         IN After(PushCells(cells, GetCellCoordinates(sel.objs[sel.ranges[i]]), maxCells))

\* getSelectedCells(maxCells)
GetSelectedCells(sel, maxCells) == SelectedCellsLoop(sel, maxCells, 1, <<>>)

\* selectAll()
SelectAll(sel) ==
    [sel EXCEPT !.ranges = <<FreshId(sel.objs)>>, !.activeRange = FreshId(sel.objs),
                !.objs = Put(sel.objs, FreshId(sel.objs),
                             NewCellRange(0, 0, MaxRows - 1, MaxCols - 1))]

\* clone(): the ranges are cloned one by one into the new Selection, the
\* active range is cloned once more on its own
CloneSelection(sel) ==
    [ranges |-> [i \in 1..Len(sel.ranges) |-> i],
     activeRange |-> IF sel.activeRange # 0 THEN Len(sel.ranges) + 1 ELSE 0,
     multiSelect |-> sel.multiSelect,
     objs |-> [i \in 1..(Len(sel.ranges) + (IF sel.activeRange # 0 THEN 1 ELSE 0)) |->
                 IF i <= Len(sel.ranges) THEN sel.objs[sel.ranges[i]]
                 ELSE sel.objs[sel.activeRange]]]

(***************************************************************************)
(* CommandManager.                                                         *)
(***************************************************************************)
VARIABLES
    dm,              \* the DataManager
    undoStack,       \* CommandManager._undoStack
    redoStack,       \* CommandManager._redoStack
    maxHistorySize,  \* CommandManager._maxHistorySize
    paused,          \* CommandManager._paused
    held,            \* the command objects a client holds outside the manager
    created,         \* number of command objects created so far (SpecGrid
                     \* and SpecStore count the direct calls on the store
                     \* with them)
    last,            \* the last call: [op, ret, id]
    run,             \* ids of the commands recorded by the calls of executeCommand
                     \* made in a row, all of them successful and not paused
    before,          \* the store (in SpecSel the Selection) as it was when the
                     \* last execute() or call began
    sel,             \* the Selection
    rng,             \* a CellRange used on its own
    timers           \* the processChunk tasks scheduled by setTimeout, oldest first

vars == <<dm, undoStack, redoStack, maxHistorySize, paused, held, created, last, run, before,
          sel, rng, timers>>

\* trimHistory that drops the newest commands: while (length > max) pop()
TrimHistoryNewest(stack, max) ==
    IF Len(stack) > max THEN SubSeq(stack, 1, max) ELSE stack

\* trimHistory: while (length > max) shift()
RECURSIVE TrimHistory(_, _)
TrimHistory(stack, max) ==
    IF Len(stack) > max THEN TrimHistory(Tail(stack), max) ELSE stack

\* executeCommand that keeps the redo stack when it records a command
ExecuteCommandStacksKeepRedo(isPaused, r, undo, redo, max) ==
    IF isPaused THEN [undo |-> undo, redo |-> redo]
    ELSE IF r.ret = "true"
         THEN [undo |-> TrimHistory(Append(undo, r.cmd), max), redo |-> redo]
         ELSE [undo |-> undo, redo |-> redo]

\* executeCommand that records the command also while paused
ExecuteCommandStacksNoPause(isPaused, r, undo, redo, max) ==
    IF r.ret = "true"
    THEN [undo |-> TrimHistory(Append(undo, r.cmd), max), redo |-> <<>>]
    ELSE [undo |-> undo, redo |-> redo]

\* the two stacks after executeCommand, r being the result of command.execute()
ExecuteCommandStacks(isPaused, r, undo, redo, max) ==
    IF isPaused THEN [undo |-> undo, redo |-> redo]
    ELSE IF r.ret = "true"
         THEN [undo |-> TrimHistory(Append(undo, r.cmd), max), redo |-> <<>>]
         ELSE [undo |-> undo, redo |-> redo]

\* what executeCommand returns ("throw": the exception leaves executeCommand):
\* the paused path calls command.execute() outside the try
ExecuteCommandReturn(isPaused, ret) ==
    IF isPaused THEN ret
    ELSE IF ret = "throw" THEN "false" ELSE ret

\* undo() that loses the popped command when its undo() fails
UndoStacksDrop(u, undo, redo) ==
    IF u.ret = "true"
    THEN [undo |-> SubSeq(undo, 1, Len(undo) - 1), redo |-> Append(redo, u.cmd)]
    ELSE [undo |-> SubSeq(undo, 1, Len(undo) - 1), redo |-> redo]

\* the two stacks after undo(), u being the result of command.undo() on the
\* popped command
UndoStacks(u, undo, redo) ==
    IF u.ret = "true"
    THEN [undo |-> SubSeq(undo, 1, Len(undo) - 1), redo |-> Append(redo, u.cmd)]
    ELSE [undo |-> Append(SubSeq(undo, 1, Len(undo) - 1), u.cmd), redo |-> redo]

\* redo() that loses the popped command when its execute() fails
RedoStacksDrop(r, undo, redo) ==
    IF r.ret = "true"
    THEN [undo |-> Append(undo, r.cmd), redo |-> SubSeq(redo, 1, Len(redo) - 1)]
    ELSE [undo |-> undo, redo |-> SubSeq(redo, 1, Len(redo) - 1)]

\* the two stacks after redo(), r being the result of command.execute() on
\* the popped command
RedoStacks(r, undo, redo) ==
    IF r.ret = "true"
    THEN [undo |-> Append(undo, r.cmd), redo |-> SubSeq(redo, 1, Len(redo) - 1)]
    ELSE [undo |-> undo, redo |-> Append(SubSeq(redo, 1, Len(redo) - 1), r.cmd)]

Call(op, ret, id) == [op |-> op, ret |-> ret, id |-> id]

\* executeCommand(c), called as op (executeCommand or executeCommandGroup)
ExecuteCommandAs(op, c) ==
    LET Record(r, st) ==
            /\ undoStack' = st.undo
            /\ redoStack' = st.redo
            /\ dm' = Collect(r.dm, st.undo \o st.redo)
            /\ last' = Call(op, ExecuteCommandReturn(paused, r.ret), c.id)
            /\ run' = IF ~paused /\ r.ret = "true" THEN Append(run, c.id) ELSE <<>>
        Run(r) == Record(r, ExecuteCommandStacks(paused, r, undoStack, redoStack,
                                                 maxHistorySize))
    IN /\ Run(Execute(c, dm))
       /\ created' = created + 1
       /\ UNCHANGED <<timers, rng, sel, maxHistorySize, paused, held, before>>

ExecuteCommand(c) == ExecuteCommandAs("executeCommand", c)

\* executeCommandGroup(commands, description)
ExecuteCommandGroup(commands) ==
    IF Len(commands) = 0
    THEN /\ last' = Call("executeCommandGroup", "true", 0)
         /\ run' = <<>>
         /\ UNCHANGED <<timers, rng, sel, dm, undoStack, redoStack, maxHistorySize, paused, held,
                        created, before>>
    ELSE ExecuteCommandAs("executeCommandGroup", MkGroup(created + 1, commands))

\* undo()
UndoCall ==
    IF Len(undoStack) = 0
    THEN /\ last' = Call("undo", "false", 0)
         /\ run' = <<>>
         /\ UNCHANGED <<timers, rng, sel, dm, undoStack, redoStack, maxHistorySize, paused, held,
                        created, before>>
    ELSE LET Record(u, st) ==
                 /\ undoStack' = st.undo
                 /\ redoStack' = st.redo
                 /\ dm' = Collect(u.dm, st.undo \o st.redo)
                 /\ last' = Call("undo", IF u.ret = "true" THEN "true" ELSE "false",
                                 u.cmd.id)
             Run(u) == Record(u, UndoStacks(u, undoStack, redoStack))
         IN /\ Run(Undo(undoStack[Len(undoStack)], dm))
            /\ run' = <<>>
            /\ UNCHANGED <<timers, rng, sel, maxHistorySize, paused, held, created, before>>

\* redo()
RedoCall ==
    IF Len(redoStack) = 0
    THEN /\ last' = Call("redo", "false", 0)
         /\ run' = <<>>
         /\ UNCHANGED <<timers, rng, sel, dm, undoStack, redoStack, maxHistorySize, paused, held,
                        created, before>>
    ELSE LET Record(r, st) ==
                 /\ undoStack' = st.undo
                 /\ redoStack' = st.redo
                 /\ dm' = Collect(r.dm, st.undo \o st.redo)
                 /\ last' = Call("redo", IF r.ret = "true" THEN "true" ELSE "false",
                                 r.cmd.id)
             Run(r) == Record(r, RedoStacks(r, undoStack, redoStack))
         IN /\ Run(Execute(redoStack[Len(redoStack)], dm))
            /\ run' = <<>>
            /\ UNCHANGED <<timers, rng, sel, maxHistorySize, paused, held, created, before>>

\* set maxHistorySize(size)
SetMaxHistorySize(size) ==
    /\ maxHistorySize' = Max(1, size)
    /\ undoStack' = TrimHistory(undoStack, Max(1, size))
    /\ dm' = Collect(dm, undoStack' \o redoStack)
    /\ last' = Call("maxHistorySize", "none", 0)
    /\ run' = <<>>
    /\ UNCHANGED <<timers, rng, sel, redoStack, paused, held, created, before>>

\* clearHistory()
ClearHistory ==
    /\ undoStack' = <<>>
    /\ redoStack' = <<>>
    /\ dm' = Collect(dm, <<>>)
    /\ last' = Call("clearHistory", "none", 0)
    /\ run' = <<>>
    /\ UNCHANGED <<timers, rng, sel, maxHistorySize, paused, held, created, before>>

\* pauseRecording()
PauseRecording ==
    /\ paused' = TRUE
    /\ last' = Call("pauseRecording", "none", 0)
    /\ run' = <<>>
    /\ UNCHANGED <<timers, rng, sel, dm, undoStack, redoStack, maxHistorySize, held, created, before>>

\* resumeRecording()
ResumeRecording ==
    /\ paused' = FALSE
    /\ last' = Call("resumeRecording", "none", 0)
    /\ run' = <<>>
    /\ UNCHANGED <<timers, rng, sel, dm, undoStack, redoStack, maxHistorySize, held, created, before>>

\* what a reader of the store sees: counts, heights, widths and the stored
\* cells by coordinate (object ids are not visible)
View(s) ==
    [rowCount |-> s.rowCount, columnCount |-> s.columnCount,
     heights |-> [i \in 1..Len(s.rows) |-> s.rowObjs[s.rows[i]].height],
     widths |-> [i \in 1..Len(s.columns) |-> s.colObjs[s.columns[i]].width],
     cells |-> [k \in DOMAIN s.cells |-> s.cellObjs[s.cells[k]]]]

(***************************************************************************)
(* Spec: a client driving one CommandManager over one DataManager.         *)
(***************************************************************************)
\* the outcomes a client writes into its own commands: an undo() that
\* throws, an execute() that throws
ClientScripts == {<<"true", "throw">>, <<"throw", "true">>}

\* the commands the client creates in store state s
Menu(id, s) ==
    {MkClient(id, p[1], p[2]) : p \in ClientScripts}
    \cup {EditOf(id, s, 0, 0, "a")}
    \cup {DeleteLineOf(id, s, "row", 0)}
    \cup {MkInsertRow(id, s.rowCount)}

\* the command arrays the client hands to executeCommandGroup in state s
GroupMenu(id, s) ==
    {<<>>, <<EditOf(id, s, 0, 0, "b"), MkClient(id, "true", "true")>>}

NoCall == Call("new", "none", 0)

Init ==
    /\ dm = NewDataManager(InitRows, InitCols)
    /\ undoStack = <<>>
    /\ redoStack = <<>>
    /\ maxHistorySize = MaxHistory
    /\ paused = FALSE
    /\ held = <<>>
    /\ created = 0
    /\ last = NoCall
    /\ run = <<>>
    /\ before = View(dm)
    /\ sel = NewSelection
    /\ rng = NewCellRange(0, 0, 0, 0)
    /\ timers = <<>>

Next ==
    \/ \E c \in Menu(created + 1, dm) : created < MaxCmds /\ ExecuteCommand(c)
    \/ \E g \in GroupMenu(created + 1, dm) : created < MaxCmds /\ ExecuteCommandGroup(g)
    \/ UndoCall
    \/ RedoCall
    \/ \E size \in {0, MaxHistory} : SetMaxHistorySize(size)
    \/ ClearHistory
    \/ PauseRecording
    \/ ResumeRecording

Spec == Init /\ [][Next]_vars
(***************************************************************************)
(* Properties of the command stack, checked under Spec.                    *)
(***************************************************************************)
Ids(stack) == [i \in 1..Len(stack) |-> stack[i].id]
Top(stack) == stack[Len(stack)]
Front(stack) == SubSeq(stack, 1, Len(stack) - 1)
IsExecuteCall(call) == call.op \in {"executeCommand", "executeCommandGroup"}

\* C2: executeCommand while not paused: on success the command is the top of
\* the undo stack and the redo stack is empty; on failure both stacks are as
\* they were before the call
C2_ExecuteCommandStackLaw ==
    [][(IsExecuteCall(last') /\ last'.id # 0 /\ ~paused) =>
         IF last'.ret = "true"
         THEN /\ Len(undoStack') > 0
              /\ Top(undoStack').id = last'.id
              /\ redoStack' = <<>>
         ELSE /\ undoStack' = undoStack
              /\ redoStack' = redoStack]_vars

\* C2 witness: execute(cmd1); execute(cmd2); undo(); execute(cmd3) has left
\* cmd1, cmd3 on the undo stack and nothing to redo
C2_Witness ==
    /\ IsExecuteCall(last) /\ last.ret = "true" /\ last.id = 3
    /\ Ids(undoStack) = <<1, 3>>
    /\ redoStack = <<>>

\* C3: undo() moves the top of the undo stack to the redo stack when the
\* command's undo() succeeds and puts it back when it fails; redo() is
\* symmetric; on an empty stack each returns false and changes nothing
C3_UndoRedoLaw ==
    [][/\ (last'.op = "undo" /\ Len(undoStack) = 0) =>
              /\ last'.ret = "false"
              /\ <<dm, undoStack, redoStack>>' = <<dm, undoStack, redoStack>>
       /\ (last'.op = "undo" /\ Len(undoStack) > 0) =>
              IF Undo(Top(undoStack), dm).ret = "true"
              THEN /\ last'.ret = "true"
                   /\ Ids(undoStack') = Ids(Front(undoStack))
                   /\ Ids(redoStack') = Append(Ids(redoStack), Top(undoStack).id)
              ELSE /\ last'.ret = "false"
                   /\ Ids(undoStack') = Ids(undoStack)
                   /\ redoStack' = redoStack
       /\ (last'.op = "redo" /\ Len(redoStack) = 0) =>
              /\ last'.ret = "false"
              /\ <<dm, undoStack, redoStack>>' = <<dm, undoStack, redoStack>>
       /\ (last'.op = "redo" /\ Len(redoStack) > 0) =>
              IF Execute(Top(redoStack), dm).ret = "true"
              THEN /\ last'.ret = "true"
                   /\ Ids(redoStack') = Ids(Front(redoStack))
                   /\ Ids(undoStack') = Append(Ids(undoStack), Top(redoStack).id)
              ELSE /\ last'.ret = "false"
                   /\ Ids(redoStack') = Ids(redoStack)
                   /\ undoStack' = undoStack]_vars

\* C3 witness: an undo() whose command failed or threw has put the command
\* back on top of the undo stack, beside a command waiting on the redo stack
C3_Witness ==
    /\ last.op = "undo" /\ last.ret = "false"
    /\ Len(undoStack) > 0 /\ Top(undoStack).id = last.id
    /\ Len(redoStack) > 0

\* C5: the undo stack never holds more than maxHistorySize commands
C5_HistoryBound == Len(undoStack) <= maxHistorySize

\* C6: after maxHistorySize + k successful executeCommand calls in a row the
\* undo stack holds exactly the most recent maxHistorySize of them, in
\* order, and the older ones are on neither stack
C6_TrimKeepsNewest ==
    Len(run) >= maxHistorySize =>
        /\ Len(undoStack) = maxHistorySize
        /\ Ids(undoStack) = SubSeq(run, Len(run) - maxHistorySize + 1, Len(run))
        /\ \A i \in 1..(Len(run) - maxHistorySize) :
              run[i] \notin SeqRange(Ids(undoStack)) \cup SeqRange(Ids(redoStack))

\* C6 witness: a run of maxHistorySize + 1 recorded commands
C6_Witness ==
    /\ maxHistorySize = MaxHistory
    /\ Len(run) = maxHistorySize + 1
    /\ Len(undoStack) = maxHistorySize

\* C7: no call of executeCommand, undo or redo ends with an exception
C7_NoExceptionEscapes == last.ret # "throw"

\* C8: while paused, executeCommand runs the command's execute(), returns
\* its result and leaves both stacks as they are; when not paused a
\* successful command is pushed
C8_PausedBypassesHistory ==
    [][(last'.op = "executeCommand") =>
         IF paused
         THEN /\ undoStack' = undoStack
              /\ redoStack' = redoStack
              /\ \E c \in Menu(created + 1, dm) :
                    /\ last'.ret = Execute(c, dm).ret
                    /\ View(dm') = View(Execute(c, dm).dm)
         ELSE last'.ret = "true" => Top(undoStack').id = last'.id]_vars

\* C8 witness: a paused executeCommand has succeeded and changed the store,
\* the redo stack still holds a command, and the executed one is on no stack
C8_Witness ==
    /\ paused /\ last.op = "executeCommand" /\ last.ret = "true"
    /\ Len(redoStack) > 0
    /\ last.id \notin SeqRange(Ids(undoStack)) \cup SeqRange(Ids(redoStack))
    /\ GetCellValue(dm, 0, 0) = "a"

(***************************************************************************)
(* SpecCmd: the life of one command object.  The client changes the store  *)
(* directly, constructs a command, may change the store again before the   *)
(* command runs (a queued command), calls execute() and then undo().       *)
(***************************************************************************)
\* the values written directly / by the commands of SpecCmd
DirectValues == {"a", "c"}

\* an edit of (0, 0) and (0, 1) in one CellEditCommand
EditPairOf(id, s, first, second) ==
    MkCellEdit(id, <<[row |-> 0, col |-> 0,
                      oldValue |-> GetCellValue(s, 0, 0), newValue |-> first],
                     [row |-> 0, col |-> 1,
                      oldValue |-> GetCellValue(s, 0, 1), newValue |-> second]>>)

\* the commands the client constructs in store state s
CmdMenu(id, s) ==
    {EditOf(id, s, 0, 0, v) : v \in {"b", "=x", "==(A1,A1)"}}
    \cup {EditOf(id, s, s.rowCount, 0, "b")}
    \cup {EditPairOf(id, s, "b", "=x")}
    \cup {MkCellEdit1(id, 0, 0, "b", GetCellValue(s, 0, 0))}
    \cup {MkClearCells(id, <<<<0, 0>>>>)}
    \cup {DeleteLineOf(id, s, type, 0) : type \in {"row", "column"}}
    \cup {MkDeleteRowColumn(id, type, 0) : type \in {"row", "column"}}
    \cup {MkRowsColumnsEdit(id, type, 0, "insert", <<>>) : type \in {"row", "column"}}
    \cup {MkInsertRow(id, 0), MkInsertColumn(id, 0)}
    \cup {MkResize(id, s, "row", 0, TallHeight), MkResize(id, s, "column", 0, WideWidth)}

\* the command has been constructed and not yet run
Pending == Len(held) = 0 \/ last.op = "construct"

\* dataManager.setCellValue(0, 0, value) by the client
DirectSetCellValue(value) ==
    /\ ~SetCellValue(dm, 0, 0, value).threw
    /\ dm' = Collect(SetCellValue(dm, 0, 0, value).dm, held)
    /\ UNCHANGED <<timers, rng, sel, undoStack, redoStack, maxHistorySize, paused, held, created,
                   last, run, before>>

\* dataManager.setCellHorizontalAlignment(0, 0, "center") by the client
DirectSetAlignment ==
    /\ dm' = Collect(SetCellHorizontalAlignment(dm, 0, 0, "center"), held)
    /\ UNCHANGED <<timers, rng, sel, undoStack, redoStack, maxHistorySize, paused, held, created,
                   last, run, before>>

\* dataManager.rows[0].height = TallHeight by the client
DirectSetRowHeight ==
    /\ dm' = Collect(SetRowHeight(dm, dm.rows[1], TallHeight), held)
    /\ UNCHANGED <<timers, rng, sel, undoStack, redoStack, maxHistorySize, paused, held, created,
                   last, run, before>>

\* dataManager.insertRow(0) by the client
DirectInsertRow ==
    /\ dm' = Collect(InsertRow(dm, 0).dm, held)
    /\ UNCHANGED <<timers, rng, sel, undoStack, redoStack, maxHistorySize, paused, held, created,
                   last, run, before>>

\* new XCommand(...)
Construct(c) ==
    /\ Len(held) = 0
    /\ held' = <<c>>
    /\ created' = created + 1
    /\ last' = Call("construct", "none", c.id)
    /\ UNCHANGED <<timers, rng, sel, dm, undoStack, redoStack, maxHistorySize, paused, run, before>>

\* command.execute() on the held command
CmdExecute ==
    /\ Len(held) = 1 /\ last.op = "construct"
    /\ LET Record(r) ==
               /\ dm' = Collect(r.dm, <<r.cmd>>)
               /\ held' = <<r.cmd>>
               /\ last' = Call("execute", r.ret, r.cmd.id)
       IN Record(Execute(held[1], dm))
    /\ before' = View(dm)
    /\ UNCHANGED <<timers, rng, sel, undoStack, redoStack, maxHistorySize, paused, created, run>>

\* command.undo() right after a successful execute()
CmdUndo ==
    /\ Len(held) = 1 /\ last.op = "execute" /\ last.ret = "true"
    /\ LET Record(u) ==
               /\ dm' = Collect(u.dm, <<u.cmd>>)
               /\ held' = <<u.cmd>>
               /\ last' = Call("undo", u.ret, u.cmd.id)
       IN Record(Undo(held[1], dm))
    /\ UNCHANGED <<timers, rng, sel, undoStack, redoStack, maxHistorySize, paused, created, run, before>>

\* command.undo() on the held command, which has never been executed
CmdUndoUnexecuted ==
    /\ Len(held) = 1 /\ last.op = "construct"
    /\ LET Record(u) ==
               /\ dm' = Collect(u.dm, <<u.cmd>>)
               /\ held' = <<u.cmd>>
               /\ last' = Call("undoUnexecuted", u.ret, u.cmd.id)
       IN Record(Undo(held[1], dm))
    /\ before' = View(dm)
    /\ UNCHANGED <<timers, rng, sel, undoStack, redoStack, maxHistorySize, paused, created, run>>

NextCmd ==
    \/ \E v \in DirectValues : Pending /\ DirectSetCellValue(v)
    \/ Pending /\ DirectSetAlignment
    \/ Pending /\ DirectSetRowHeight
    \/ Pending /\ DirectInsertRow
    \/ \E c \in CmdMenu(created + 1, dm) : Construct(c)
    \/ CmdExecute
    \/ CmdUndo
    \/ CmdUndoUnexecuted

SpecCmd == Init /\ [][NextCmd]_vars

(***************************************************************************)
(* SpecGroup: the client arranges the store directly and then hands arrays *)
(* of commands to executeCommandGroup, undoing and redoing the groups.     *)
(***************************************************************************)
\* the command arrays the client hands to executeCommandGroup in state s
GroupArrays(id, s) ==
    {<<>>,
     <<EditOf(id, s, 0, 0, "b"), MkResize(id, s, "row", 0, TallHeight)>>,
     <<MkClient(id, "false", "true"), EditOf(id, s, 0, 0, "b")>>,
     <<EditOf(id, s, 0, 0, "b"), MkClient(id, "false", "true"),
       MkResize(id, s, "row", 0, TallHeight)>>,
     <<MkResize(id, s, "row", 0, TallHeight), EditOf(id, s, 0, 0, "b"),
       MkClient(id, "throw", "true")>>,
     <<MkClient(id, "true", "throw"), EditOf(id, s, 0, 0, "=x")>>,
     <<DeleteLineOf(id, s, "row", 0), EditOf(id, s, 0, 0, "=x")>>,
     <<EditPairOf(id, s, "b", "=x")>>,
     <<MkClient(id, "true", "false"), EditOf(id, s, 0, 0, "b")>>,
     <<EditOf(id, s, 0, 0, "==(A1,A1)"), DeleteLineOf(id, s, "row", 0)>>}

NextGroup ==
    \/ \E v \in DirectValues : created = 0 /\ DirectSetCellValue(v)
    \/ created = 0 /\ DirectSetAlignment
    \/ created = 0 /\ DirectSetRowHeight
    \/ created = 0 /\ DirectInsertRow
    \/ \E g \in GroupArrays(created + 1, dm) : created < MaxCmds /\ ExecuteCommandGroup(g)
    \/ UndoCall
    \/ RedoCall

SpecGroup == Init /\ [][NextGroup]_vars

(***************************************************************************)
(* SpecGrid: the ExcelGrid UI layer over the CommandManager: commands go   *)
(* through executeCommand, undo and redo; bulk load, clear-all and the     *)
(* delete-selected-rows button change the DataManager directly.            *)
(***************************************************************************)
\* DataManager.clear(): this._cells.clear()
Clear(s) == [s EXCEPT !.cells = EmptyMap]

\* the record arrays the user loads: records with the one key "name"
DataArrays == {<<>>, <<"x">>}

\* ExcelGrid.loadDataArray(data), data within one chunk; the ghost return
\* value tells whether the store was touched
LoadDataArray(data) ==
    IF Len(data) = 0
    THEN /\ last' = Call("loadDataArray", "false", 0)
         /\ run' = <<>>
         /\ UNCHANGED <<timers, rng, sel, dm, undoStack, redoStack, maxHistorySize, paused, held,
                        created, before>>
    ELSE LET Loaded(w) == dm' = Collect(w.dm, undoStack \o redoStack)
         IN /\ Loaded(WriteAll(Clear(dm),
                         <<Write(0, 0, "name")>>
                             \o [i \in 1..Len(data) |-> Write(i, 0, data[i])], 1))
            /\ last' = Call("loadDataArray", "true", 0)
            /\ run' = <<>>
            /\ created' = created + 1
            /\ UNCHANGED <<timers, rng, sel, undoStack, redoStack, maxHistorySize, paused, held, before>>

\* ExcelGrid.clearAllData(), the user confirming
ClearAllData ==
    /\ dm' = Collect(Clear(dm), <<>>)
    /\ undoStack' = <<>>
    /\ redoStack' = <<>>
    /\ last' = Call("clearAllData", "true", 0)
    /\ run' = <<>>
    /\ created' = created + 1
    /\ UNCHANGED <<timers, rng, sel, maxHistorySize, paused, held, before>>

\* ExcelGrid.deleteSelectedRows(), the active cell in row rowIndex and no
\* full-row selection, the user confirming
DeleteSelectedRows(rowIndex) ==
    LET Deleted(r) ==
            /\ dm' = Collect(r.dm, undoStack \o redoStack)
            /\ last' = Call("deleteSelectedRows", IF r.ok THEN "true" ELSE "false", 0)
    IN /\ Deleted(DeleteRow(dm, rowIndex))
       /\ run' = <<>>
       /\ created' = created + 1
       /\ UNCHANGED <<timers, rng, sel, undoStack, redoStack, maxHistorySize, paused, held, before>>

\* the commands the toolbar and the cell editor create in store state s
GridMenu(id, s) == {EditOf(id, s, 0, 0, "a"), DeleteLineOf(id, s, "row", 0)}

NextGrid ==
    \/ \E c \in GridMenu(created + 1, dm) : created < MaxCmds /\ ExecuteCommand(c)
    \/ UndoCall
    \/ RedoCall
    \/ \E data \in DataArrays : created < MaxCmds /\ LoadDataArray(data)
    \/ created < MaxCmds /\ ClearAllData
    \/ \E rowIndex \in {0, MaxRows - 1} : created < MaxCmds /\ DeleteSelectedRows(rowIndex)

SpecGrid == Init /\ [][NextGrid]_vars

(***************************************************************************)
(* SpecLoad: bulk loads in chunks.  loadDataArray clears the store, writes *)
(* the header row and the first chunk in the caller's task and schedules   *)
(* processChunk for the rest with setTimeout(processChunk, 0); between two *)
(* tasks the user's other actions run.  A record array is given by its     *)
(* headers (the keys of the first record) and the records' values in key   *)
(* order.                                                                  *)
(***************************************************************************)
\* the record arrays the user loads
LoadArrays ==
    {[headers |-> <<"name">>, records |-> <<<<"x">>, <<"y">>>>],
     [headers |-> <<"id", "name">>, records |-> <<<<"1", "z">>>>]}

\* the writes of processChunk for the records processed .. end - 1 (0-based):
\* setCellValue(i + 1, col, value) for every header
ChunkWrites(data, processed, end) ==
    LET width == Len(data.headers)
    IN [k \in 1..((end - processed) * width) |->
           Write(processed + ((k - 1) \div width) + 1, (k - 1) % width,
                 data.records[processed + ((k - 1) \div width) + 1][((k - 1) % width) + 1])]

\* one run of processChunk on store s: the chunk is written, then the next
\* run is scheduled or the load has finished
ProcessChunk(s, data, processed) ==
    LET end == Min(processed + ChunkSize, Len(data.records))
    IN [dm |-> WriteAll(s, ChunkWrites(data, processed, end), 1).dm,
        processed |-> end,
        finished |-> end >= Len(data.records)]

\* what a run of processChunk leaves in the state: p is its result
Chunked(data, p, pending) ==
    /\ dm' = Collect(p.dm, undoStack \o redoStack)
    /\ timers' = IF p.finished THEN pending
                 ELSE Append(pending, [data |-> data, processed |-> p.processed])
    /\ last' = Call(IF p.finished THEN "loadFinished" ELSE "processChunk", "true", data)
    /\ run' = <<>>

\* ExcelGrid.loadDataArray(data) of a non-empty array: clear, header row,
\* first run of processChunk
LoadDataArrayChunked(data) ==
    /\ Chunked(data,
               ProcessChunk(WriteAll(Clear(dm),
                                     [c \in 1..Len(data.headers) |->
                                         Write(0, c - 1, data.headers[c])], 1).dm,
                            data, 0),
               timers)
    /\ created' = created + 1
    /\ UNCHANGED <<rng, sel, undoStack, redoStack, maxHistorySize, paused, held, before>>

\* the oldest scheduled processChunk runs
TimerFires ==
    /\ Len(timers) > 0
    /\ Chunked(timers[1].data, ProcessChunk(dm, timers[1].data, timers[1].processed),
               Tail(timers))
    /\ UNCHANGED <<rng, sel, undoStack, redoStack, maxHistorySize, paused, held, before,
                   created>>

NextLoad ==
    \/ \E data \in LoadArrays : created < MaxCmds /\ LoadDataArrayChunked(data)
    \/ TimerFires
    \/ created < MaxCmds /\ ClearAllData
    \/ \E c \in GridMenu(created + 1, dm) : created < MaxCmds /\ ExecuteCommand(c)
    \/ created < MaxCmds /\ ExecuteCommand(MkInsertRow(created + 1, 0))
    \/ UndoCall

SpecLoad == Init /\ [][NextLoad]_vars

(***************************************************************************)
(* SpecStore: a client calling the DataManager's own methods, MaxCmds + 1  *)
(* calls in a behaviour.  before is the store (with its object ids) as it  *)
(* was when the last call began, last.id the row / index argument.         *)
(***************************************************************************)
\* the cell writes of the client: the first cell, the last initial row, the
\* last cell the maxima allow (the store grows), an empty value (the cell is
\* deleted), and coordinates outside the maxima
StoreWrites ==
    {Write(0, 0, "a"), Write(InitRows - 1, 0, "b"), Write(MaxRows - 1, MaxCols - 1, "a"),
     Write(0, 0, ""),
     Write(MaxRows, 0, "a"), Write(0 - 1, 0, "a"), Write(0, MaxCols, "=x")}

\* what every call of SpecStore records; r is [dm, ok], the result of the
\* call, index the index argument of a structural call and the arguments
\* [row, col, value] of a write
Called(op, index, r) ==
    /\ dm' = Collect(r.dm, <<>>)
    /\ last' = Call(op, IF r.ok THEN "true" ELSE "false", index)
    /\ before' = dm
    /\ created' = created + 1
    /\ UNCHANGED <<timers, rng, sel, undoStack, redoStack, maxHistorySize, paused, held, run>>

\* dataManager.setCellValue(w.row, w.col, w.value)
CallSetCellValue(w) ==
    LET Done(r) == Called("setCellValue", w, [dm |-> r.dm, ok |-> ~r.threw])
    IN Done(SetCellValue(dm, w.row, w.col, w.value))

\* dataManager.setCellHorizontalAlignment(row, col, alignment)
CallSetCellHorizontalAlignment(row, col, alignment) ==
    Called("setCellHorizontalAlignment", Write(row, col, alignment),
           [dm |-> SetCellHorizontalAlignment(dm, row, col, alignment), ok |-> TRUE])

\* dataManager.setBold(row, col, true)
CallSetBold(row, col) ==
    LET Done(r) == Called("setBold", Write(row, col, "true"),
                          [dm |-> r.dm, ok |-> ~r.threw])
    IN Done(SetBold(dm, row, col, TRUE))

\* dataManager.insertRow(index)
CallInsertRow(index) == Called("insertRow", index, InsertRow(dm, index))

\* dataManager.insertColumn(index)
CallInsertColumn(index) == Called("insertColumn", index, InsertColumn(dm, index))

\* dataManager.deleteRow(index)
CallDeleteRow(index) == Called("deleteRow", index, DeleteRow(dm, index))

\* dataManager.deleteColumn(index)
CallDeleteColumn(index) == Called("deleteColumn", index, DeleteColumn(dm, index))

NextStore ==
    \/ \E w \in StoreWrites : created <= MaxCmds /\ CallSetCellValue(w)
    \/ \E alignment \in {"center", "left"} :
          created <= MaxCmds /\ CallSetCellHorizontalAlignment(0, 0, alignment)
    \/ \E row \in {0, MaxRows - 1} : created <= MaxCmds /\ CallSetBold(row, 0)
    \/ \E index \in (0 - 1)..MaxRows : created <= MaxCmds /\ CallInsertRow(index)
    \/ \E index \in (0 - 1)..MaxCols : created <= MaxCmds /\ CallInsertColumn(index)
    \/ \E index \in (0 - 1)..MaxRows : created <= MaxCmds /\ CallDeleteRow(index)
    \/ \E index \in (0 - 1)..MaxCols : created <= MaxCmds /\ CallDeleteColumn(index)

SpecStore == Init /\ [][NextStore]_vars

(***************************************************************************)
(* SpecSel: a client calling the public operations of one Selection,       *)
(* MaxCmds + 1 calls in a behaviour; after clone() the client goes on with *)
(* the clone.  before is the Selection as it was when the last call began, *)
(* last.id the arguments of the call.                                      *)
(***************************************************************************)
\* the select calls of the client
SelectCalls ==
    UNION {{SelectCellCall(0, 0, add), SelectCellCall(1, 1, add),
            [SelectCellCall(0, 0, add) EXCEPT !.op = "selectRange", !.endRow = 1, !.endCol = 1],
            [SelectCellCall(0, 1, add) EXCEPT !.op = "selectColumn"],
            [SelectCellCall(0, 1, add) EXCEPT !.op = "selectColumnRange", !.endCol = 0],
            [SelectCellCall(1, 0, add) EXCEPT !.op = "selectRow"],
            [SelectCellCall(1, 0, add) EXCEPT !.op = "selectRowRange", !.endRow = 0]}
           : add \in BOOLEAN}

\* what every call of SpecSel records; s is the Selection after the call
\* (CellRange objects nothing refers to any more are dropped)
Selected(op, args, s) ==
    /\ sel' = [s EXCEPT !.objs = [i \in (DOMAIN s.objs)
                                     \cap (SeqRange(s.ranges) \cup {s.activeRange}) |->
                                     s.objs[i]]]
    /\ last' = Call(op, "true", args)
    /\ before' = sel
    /\ created' = created + 1
    /\ UNCHANGED <<dm, undoStack, redoStack, maxHistorySize, paused, held, run, rng,
                   timers>>

NextSel ==
    \/ \E call \in SelectCalls :
          created <= MaxCmds /\ Selected(call.op, call, Select(sel, call))
    \/ \E p \in {<<0, 0>>, <<1, 1>>} :
          created <= MaxCmds
              /\ Selected("extendSelection", p, ExtendSelection(sel, p[1], p[2]))
    \/ \E p \in {<<0, 0>>, <<1, 1>>} :
          created <= MaxCmds /\ Selected("toggleCell", p, ToggleCell(sel, p[1], p[2]))
    \/ \E index \in (0 - 1)..1 :
          created <= MaxCmds /\ Selected("removeRange", index, RemoveRange(sel, index))
    \/ created <= MaxCmds /\ Selected("clearSelection", 0, ClearSelection(sel))
    \/ created <= MaxCmds /\ Selected("selectAll", 0, SelectAll(sel))
    \/ \E enabled \in BOOLEAN :
          created <= MaxCmds /\ Selected("multiSelect", enabled, SetMultiSelect(sel, enabled))
    \/ created <= MaxCmds /\ Selected("clone", 0, CloneSelection(sel))

SpecSel == Init /\ [][NextSel]_vars

(***************************************************************************)
(* SpecRange: one CellRange, constructed with corners in any order and     *)
(* changed through its own methods.                                        *)
(***************************************************************************)
\* the row and column indices of the calls; the columns reach the labels of
\* one, two and three letters
RangeRows == {0, 1, MaxRows - 1}
RangeCols == {0, 1, 26, 702}

\* what every call of SpecRange records
Ranged(op, args, r) ==
    /\ rng' = r
    /\ last' = Call(op, "true", args)
    /\ UNCHANGED <<dm, undoStack, redoStack, maxHistorySize, paused, held, created, run,
                   before, sel, timers>>

NextRange ==
    \/ \E a, c \in RangeRows, b, d \in RangeCols :
          Ranged("CellRange", <<a, b, c, d>>, NewCellRange(a, b, c, d))
    \/ \E a, c \in RangeRows, b, d \in RangeCols :
          Ranged("setCellRange", <<a, b, c, d>>, SetCellRange(rng, a, b, c, d))
    \/ \E a, c \in RangeRows, maxCols \in {1, MaxCols} :
          Ranged("setRowSelection", <<a, c, maxCols>>, SetRowSelection(rng, a, c, maxCols))
    \/ \E b, d \in RangeCols, maxRows \in {1, MaxRows} :
          Ranged("setColumnSelection", <<b, d, maxRows>>,
                 SetColumnSelection(rng, b, d, maxRows))
    \/ \E row \in RangeRows, col \in RangeCols :
          Ranged("expandTo", <<row, col>>, ExpandTo(rng, row, col))
    \/ \E row \in RangeRows, col \in RangeCols :
          Ranged("reset", <<row, col>>, Reset(rng, row, col))

SpecRange == Init /\ [][NextRange]_vars

(***************************************************************************)
(* Properties of single commands, checked under SpecCmd.                   *)
(***************************************************************************)
\* what C1 compares: the counts, every height and width, every cell value
Contents(v) ==
    [rowCount |-> v.rowCount, columnCount |-> v.columnCount,
     heights |-> v.heights, widths |-> v.widths,
     values |-> [k \in {x \in DOMAIN v.cells : v.cells[x].value # ""} |->
                    v.cells[k].value]]

\* a successful execute() of the held command has been followed by undo()
RoundTripDone == Len(held) = 1 /\ last.op = "undo" /\ last.ret = "true"

\* C1: after a successful execute() followed at once by undo(), every cell
\* value, the row and column counts and every row height and column width
\* are what they were just before execute()
C1_RoundTripRestores ==
    RoundTripDone => Contents(View(dm)) = Contents(before)

\* the value a view shows at (row, col)
ValueAt(v, row, col) ==
    IF <<row, col>> \in DOMAIN v.cells THEN v.cells[<<row, col>>].value ELSE ""

\* C9: after execute(); undo() of a cell-edit command the edited cell holds
\* the value it had just before execute()
C9_UndoRestoresValueBeforeExecute ==
    /\ (RoundTripDone /\ held[1].kind = "CellEdit") =>
           \A i \in 1..Len(held[1].data) :
               GetCellValue(dm, held[1].data[i].row, held[1].data[i].col)
                   = ValueAt(before, held[1].data[i].row, held[1].data[i].col)
    /\ (RoundTripDone /\ held[1].kind = "CellEdit1") =>
           GetCellValue(dm, held[1].row, held[1].col)
               = ValueAt(before, held[1].row, held[1].col)

\* the held command deletes a row or a column
IsDelete(c) ==
    \/ c.kind = "DeleteRowColumn"
    \/ c.kind = "RowsColumnsEdit" /\ c.operation = "delete"

\* C10: after execute(); undo() of a delete command the store shows the same
\* counts, heights, widths and stored cells (values and attributes) as just
\* before execute()
C10_DeleteUndoRestoresLine ==
    (RoundTripDone /\ IsDelete(held[1])) => View(dm) = before

\* C11: undo() on a command that has never been executed returns false and
\* leaves the store (cells, counts, heights and widths) unchanged
C11_UndoUnexecutedIsGuarded ==
    last.op = "undoUnexecuted" => (last.ret = "false" /\ View(dm) = before)

(***************************************************************************)
(* Properties of command groups, checked under SpecGroup.                  *)
(***************************************************************************)
\* C4: an executeCommandGroup call that reports failure leaves the cell
\* values, the counts and the heights and widths as they were before the call
C4_GroupAtomicOnFailure ==
    [][(last'.op = "executeCommandGroup" /\ last'.ret = "false") =>
           Contents(View(dm')) = Contents(View(dm))]_vars

\* C12: an undo() of a group that reports failure leaves the cell values,
\* the counts and the heights and widths as they were before the call
C12_GroupUndoFailureRestores ==
    [][(last'.op = "undo" /\ last'.ret = "false" /\ Len(undoStack) > 0
           /\ Top(undoStack).kind = "Group") =>
           Contents(View(dm')) = Contents(View(dm))]_vars

(***************************************************************************)
(* Properties of the UI layer, checked under SpecGrid.                     *)
(***************************************************************************)
\* C13: after a bulk load, a clear-all or a direct row deletion that changed
\* the store, the undo stack and the redo stack are empty
C13_BypassClearsHistory ==
    (last.op \in {"loadDataArray", "clearAllData", "deleteSelectedRows"}
        /\ last.ret = "true")
    => (Len(undoStack) = 0 /\ Len(redoStack) = 0)

(***************************************************************************)
(* Properties of the DataManager's structural methods, checked under       *)
(* SpecStore.                                                              *)
(***************************************************************************)
\* the last call was op and returned true
Succeeded(op) == last.op = op /\ last.ret = "true"

\* C14: after a successful insertRow(i) the value at (r, c) is the old value
\* at (r, c) for r < i, empty for r = i and the old value at (r - 1, c) for
\* r > i, the row count is one more and the column count the same;
\* insertColumn(i) likewise along the columns
C14_InsertShiftsValues ==
    /\ Succeeded("insertRow") =>
          /\ dm.rowCount = before.rowCount + 1
          /\ dm.columnCount = before.columnCount
          /\ \A r \in 0..MaxRows, c \in 0..MaxCols :
                GetCellValue(dm, r, c) =
                    IF r < last.id THEN GetCellValue(before, r, c)
                    ELSE IF r = last.id THEN ""
                    ELSE GetCellValue(before, r - 1, c)
    /\ Succeeded("insertColumn") =>
          /\ dm.columnCount = before.columnCount + 1
          /\ dm.rowCount = before.rowCount
          /\ \A r \in 0..MaxRows, c \in 0..MaxCols :
                GetCellValue(dm, r, c) =
                    IF c < last.id THEN GetCellValue(before, r, c)
                    ELSE IF c = last.id THEN ""
                    ELSE GetCellValue(before, r, c - 1)

\* C14 witness: insertRow(i) succeeded with a value above row i and a value
\* that moved from row i to row i + 1
C14_Witness ==
    /\ Succeeded("insertRow")
    /\ \E r \in 0..MaxRows, c \in 0..MaxCols :
          r < last.id /\ GetCellValue(dm, r, c) # ""
    /\ \E c \in 0..MaxCols : GetCellValue(before, last.id, c) # ""
                             /\ GetCellValue(dm, last.id + 1, c) # ""

\* the ids of the Cell objects in the sparse map of store s
StoredCells(s) == {s.cells[k] : k \in DOMAIN s.cells}

\* seq is old without the element at 0-based position index
Removed(seq, old, index) ==
    /\ Len(seq) = Len(old) - 1
    /\ \A p \in 1..Len(seq) : seq[p] = IF p <= index THEN old[p] ELSE old[p + 1]

\* C15: after a successful deleteRow(i) the value at (r, c) is the old value
\* at (r, c) for r < i and the old value at (r + 1, c) for r >= i, the cells
\* that were stored in row i are no longer stored, the Row record at i is
\* gone from the sequence and the row count is one less; deleteColumn(i)
\* likewise along the columns
C15_DeleteShiftsValues ==
    /\ Succeeded("deleteRow") =>
          /\ dm.rowCount = before.rowCount - 1
          /\ Removed(dm.rows, before.rows, last.id)
          /\ \A k \in DOMAIN before.cells :
                k[1] = last.id => before.cells[k] \notin StoredCells(dm)
          /\ \A r \in 0..MaxRows, c \in 0..MaxCols :
                GetCellValue(dm, r, c) =
                    IF r < last.id THEN GetCellValue(before, r, c)
                    ELSE GetCellValue(before, r + 1, c)
    /\ Succeeded("deleteColumn") =>
          /\ dm.columnCount = before.columnCount - 1
          /\ Removed(dm.columns, before.columns, last.id)
          /\ \A k \in DOMAIN before.cells :
                k[2] = last.id => before.cells[k] \notin StoredCells(dm)
          /\ \A r \in 0..MaxRows, c \in 0..MaxCols :
                GetCellValue(dm, r, c) =
                    IF c < last.id THEN GetCellValue(before, r, c)
                    ELSE GetCellValue(before, r, c + 1)

\* C15 witness: deleteRow(i) succeeded on a store with a cell in row i and a
\* value in row i + 1, which is now in row i
C15_Witness ==
    /\ Succeeded("deleteRow")
    /\ \E k \in DOMAIN before.cells : k[1] = last.id
    /\ \E c \in 0..MaxCols : GetCellValue(before, last.id + 1, c) # ""
                             /\ GetCellValue(dm, last.id, c) # ""

\* the stored cell contents of store s: the value under every key of the map
StoredValues(s) == [k \in DOMAIN s.cells |-> s.cellObjs[s.cells[k]].value]

\* C16: insertRow(i) that succeeds, followed at once by deleteRow(i): the
\* deleteRow succeeds and the store has the stored cell contents (the same
\* keys, the same value under each) and the row count it had before the
\* insertRow; insertColumn(i) then deleteColumn(i) likewise
C16_InsertDeleteInverse ==
    [][/\ (Succeeded("insertRow") /\ last'.op = "deleteRow" /\ last'.id = last.id) =>
             /\ last'.ret = "true"
             /\ StoredValues(dm') = StoredValues(before)
             /\ dm'.rowCount = before.rowCount
       /\ (Succeeded("insertColumn") /\ last'.op = "deleteColumn" /\ last'.id = last.id) =>
             /\ last'.ret = "true"
             /\ StoredValues(dm') = StoredValues(before)
             /\ dm'.columnCount = before.columnCount]_vars

\* C16 witness: insertRow(i) has just succeeded and moved a stored cell from
\* row i down, and the client has a call left for deleteRow(i)
C16_Witness ==
    /\ Succeeded("insertRow")
    /\ created <= MaxCmds
    /\ \E k \in DOMAIN before.cells : k[1] >= last.id
    /\ \E k \in DOMAIN dm.cells : k[1] < last.id

\* the last call was op and returned false
Refused(op) == last.op = op /\ last.ret = "false"

\* C17: a structural call that is refused returns false and leaves the
\* store as it was (cells, counts, Row and Column records); insertRow /
\* insertColumn(i) is refused exactly when i < 0, i > count or count = max,
\* deleteRow / deleteColumn(i) exactly when i < 0, i >= count or count = 1
C17_RefusedChangesNothing ==
    /\ last.op \in {"insertRow", "insertColumn", "deleteRow", "deleteColumn"} =>
          /\ last.ret \in {"true", "false"}
          /\ last.ret = "false" => dm = before
    /\ last.op = "insertRow" =>
          (last.ret = "false" <=>
              (last.id < 0 \/ last.id > before.rowCount \/ before.rowCount = MaxRows))
    /\ last.op = "insertColumn" =>
          (last.ret = "false" <=>
              (last.id < 0 \/ last.id > before.columnCount \/ before.columnCount = MaxCols))
    /\ last.op = "deleteRow" =>
          (last.ret = "false" <=>
              (last.id < 0 \/ last.id >= before.rowCount \/ before.rowCount = 1))
    /\ last.op = "deleteColumn" =>
          (last.ret = "false" <=>
              (last.id < 0 \/ last.id >= before.columnCount \/ before.columnCount = 1))

\* C17 witness: insertRow at a valid index refused by a store with cells
\* that has MaxRows rows
C17_Witness ==
    /\ Refused("insertRow")
    /\ last.id >= 0 /\ last.id <= before.rowCount
    /\ before.rowCount = MaxRows
    /\ DOMAIN dm.cells # {}

\* C18: in every state the Row sequence has rowCount records and the Column
\* sequence columnCount records, and the index field of the record at
\* 0-based position p is p
C18_MetadataMatchesCounts ==
    /\ Len(dm.rows) = dm.rowCount
    /\ Len(dm.columns) = dm.columnCount
    /\ \A p \in 1..Len(dm.rows) : dm.rowObjs[dm.rows[p]].index = p - 1
    /\ \A p \in 1..Len(dm.columns) : dm.colObjs[dm.columns[p]].index = p - 1

\* C18 witness: insertRow(i) succeeded with rows after i (their index
\* fields had to be rewritten) on a store that had lost a column
C18_Witness ==
    /\ Succeeded("insertRow")
    /\ last.id < before.rowCount
    /\ before.columnCount < InitCols

\* C19: in every state every cell of the sparse map is stored under the key
\* of its own row and col fields, with 0 <= row < MaxRows and
\* 0 <= col < MaxCols
C19_CellsUnderOwnKeyInBounds ==
    \A k \in DOMAIN dm.cells :
        /\ dm.cellObjs[dm.cells[k]].row = k[1]
        /\ dm.cellObjs[dm.cells[k]].col = k[2]
        /\ k[1] >= 0 /\ k[1] < MaxRows
        /\ k[2] >= 0 /\ k[2] < MaxCols

\* C19 witness: insertRow(i) succeeded and moved a stored cell into the last
\* row the maximum allows
C19_Witness ==
    /\ Succeeded("insertRow")
    /\ \E k \in DOMAIN dm.cells : k[1] = MaxRows - 1 /\ k[1] > last.id

\* the key the cell stored under key k is expected under after op(index)
ShiftedKey(k, op, index) ==
    IF op = "insertRow" THEN (IF k[1] >= index THEN <<k[1] + 1, k[2]>> ELSE k)
    ELSE IF op = "insertColumn" THEN (IF k[2] >= index THEN <<k[1], k[2] + 1>> ELSE k)
    ELSE IF op = "deleteRow" THEN (IF k[1] > index THEN <<k[1] - 1, k[2]>> ELSE k)
    ELSE (IF k[2] > index THEN <<k[1], k[2] - 1>> ELSE k)

\* the cell stored under key k is in the line that op(index) deletes
InDeletedLine(k, op, index) ==
    \/ op = "deleteRow" /\ k[1] = index
    \/ op = "deleteColumn" /\ k[2] = index

\* C20: after a successful insertRow / insertColumn / deleteRow /
\* deleteColumn every Cell object that was stored outside the deleted line
\* is the object stored under the shifted key, its row and col fields are
\* that key and its value is what it was
C20_ShiftKeepsIdentity ==
    (last.op \in {"insertRow", "insertColumn", "deleteRow", "deleteColumn"}
        /\ last.ret = "true") =>
        \A k \in DOMAIN before.cells :
            ~InDeletedLine(k, last.op, last.id) =>
                /\ ShiftedKey(k, last.op, last.id) \in DOMAIN dm.cells
                /\ dm.cells[ShiftedKey(k, last.op, last.id)] = before.cells[k]
                /\ dm.cellObjs[before.cells[k]].row = ShiftedKey(k, last.op, last.id)[1]
                /\ dm.cellObjs[before.cells[k]].col = ShiftedKey(k, last.op, last.id)[2]
                /\ dm.cellObjs[before.cells[k]].value = before.cellObjs[before.cells[k]].value

\* C20 witness: a successful insertRow(i) on a store with a cell above row i
\* and a cell at or below it
C20_Witness ==
    /\ Succeeded("insertRow")
    /\ \E k \in DOMAIN before.cells : k[1] < last.id
    /\ \E k \in DOMAIN before.cells : k[1] >= last.id


(***************************************************************************)
(* Properties of the DataManager's cell writes, checked under SpecStore.   *)
(***************************************************************************)
\* the cell has an empty value and the attributes new Cell(row, col, '') has
IsDefaultCell(cell) ==
    /\ cell.value = ""
    /\ cell.fontSize = DefaultFontSize
    /\ cell.horizontalAlignment = "left"
    /\ cell.verticalAlignment = "middle"
    /\ cell.isBold = Null
    /\ cell.isItalic = Null

\* C21: in every state every cell of the sparse map has a non-empty value or
\* an attribute that differs from its default
C21_NoDefaultCellStored ==
    \A k \in DOMAIN dm.cells : ~IsDefaultCell(dm.cellObjs[dm.cells[k]])

\* C22: after an attribute write (setBold, setCellHorizontalAlignment) to a
\* coordinate, with or without a stored cell, getCell(row, col) reads back
\* the attribute that was written
C22_AttributeWriteReadsBack ==
    /\ (last.op = "setBold" /\ last.ret = "true") =>
          GetCell(dm, last.id.row, last.id.col).isBold = "true"
    /\ last.op = "setCellHorizontalAlignment" =>
          GetCell(dm, last.id.row, last.id.col).horizontalAlignment = last.id.value

\* C23: a value write or attribute write removes a stored cell only if all
\* the attributes of the cell are default: a cell with an attribute that is
\* not default stays stored when the empty value is written to it
C23_RemovedOnlyWhenDefault ==
    last.op \in {"setCellValue", "setCellHorizontalAlignment", "setBold"} =>
        \A k \in (DOMAIN before.cells) \ (DOMAIN dm.cells) :
            IsDefaultCell([before.cellObjs[before.cells[k]] EXCEPT !.value = ""])

\* C24: after setCellValue(row, col, v) within the maxima, v not empty and
\* not a formula, getCellValue(row, col) is v and the value at every other
\* coordinate is what it was
C24_SetThenGet ==
    (last.op = "setCellValue" /\ InMaxBounds(last.id.row, last.id.col)
        /\ last.id.value # "" /\ ~StartsWithEq(last.id.value)) =>
        /\ last.ret = "true"
        /\ GetCellValue(dm, last.id.row, last.id.col) = last.id.value
        /\ \A r \in 0..MaxRows, c \in 0..MaxCols :
              <<r, c>> # <<last.id.row, last.id.col>> =>
                  GetCellValue(dm, r, c) = GetCellValue(before, r, c)

\* C24 witness: a value written to a coordinate without a stored cell, in a
\* store that holds a value at another coordinate
C24_Witness ==
    /\ last.op = "setCellValue" /\ InMaxBounds(last.id.row, last.id.col)
    /\ last.id.value = "a"
    /\ <<last.id.row, last.id.col>> \notin DOMAIN before.cells
    /\ \E k \in DOMAIN before.cells : GetCellValue(dm, k[1], k[2]) = "b"

\* C25: getCellValue is the empty string at every coordinate outside the
\* maxima and at every coordinate within them without a stored cell, and
\* setCellValue at a coordinate outside the maxima returns without an
\* exception and leaves the store (cells, counts, Row and Column records) as
\* it was
C25_OutOfBoundsSilent ==
    /\ \A r \in (0 - 1)..MaxRows, c \in (0 - 1)..MaxCols :
          (r < 0 \/ r >= MaxRows \/ c < 0 \/ c >= MaxCols
              \/ <<r, c>> \notin DOMAIN dm.cells) =>
              GetCellValue(dm, r, c) = ""
    /\ (last.op = "setCellValue"
          /\ (last.id.row < 0 \/ last.id.row >= MaxRows
                 \/ last.id.col < 0 \/ last.id.col >= MaxCols)) =>
          (last.ret = "true" /\ dm = before)

\* C25 witness: setCellValue with a formula that cannot be parsed, at a
\* column past the maximum, on a store that holds cells
C25_Witness ==
    /\ last.op = "setCellValue"
    /\ last.id.col >= MaxCols /\ ParseFormulaThrows(last.id.value)
    /\ DOMAIN dm.cells # {}

\* C26: the counts stay within 1 .. max, growing to the capacity the store
\* already has changes nothing, no value write or attribute write decreases
\* a count, and after a write at (row, col) within the maxima
\* rowCount >= row + 1 and columnCount >= col + 1
C26_GrowthMonotonicBounded ==
    /\ dm.rowCount >= 1 /\ dm.rowCount <= MaxRows
    /\ dm.columnCount >= 1 /\ dm.columnCount <= MaxCols
    /\ EnsureCapacity(dm, dm.rowCount, dm.columnCount) = dm
    /\ last.op \in {"setCellValue", "setCellHorizontalAlignment", "setBold"} =>
          /\ dm.rowCount >= before.rowCount
          /\ dm.columnCount >= before.columnCount
          /\ (last.id.row >= 0 /\ last.id.row < MaxRows
                 /\ last.id.col >= 0 /\ last.id.col < MaxCols) =>
                 (dm.rowCount >= last.id.row + 1 /\ dm.columnCount >= last.id.col + 1)


(***************************************************************************)
(* Properties of the Selection, checked under SpecSel.                     *)
(***************************************************************************)
\* C27: in every state of a Selection, a clone included, the active range is
\* null or is one of the objects in the ranges sequence
C27_ActiveRangeIsMember ==
    sel.activeRange = 0 \/ sel.activeRange \in SeqRange(sel.ranges)

\* C28: after selectCell, selectRange, selectColumn, selectColumnRange,
\* selectRow or selectRowRange the new range is the active range; the ranges
\* are exactly that range when addToSelection is false or multi-select was
\* off, otherwise the previous ranges followed by it; and the multi-select
\* mode is what it was before the call
C28_SelectReplacesOrAppends ==
    last.op \in {"selectCell", "selectRange", "selectColumn", "selectColumnRange",
                 "selectRow", "selectRowRange"} =>
        /\ sel.activeRange \in DOMAIN sel.objs \ DOMAIN before.objs
        /\ sel.objs[sel.activeRange] = RangeOf(last.id)
        /\ sel.ranges = IF ~last.id.addToSelection \/ ~before.multiSelect
                        THEN <<sel.activeRange>>
                        ELSE Append(before.ranges, sel.activeRange)
        /\ \A i \in SeqRange(before.ranges) \cap SeqRange(sel.ranges) :
               sel.objs[i] = before.objs[i]
        /\ sel.multiSelect = before.multiSelect

\* C28 with selectRowRange left out: the other five select methods
C28_SelectKeepsMode ==
    last.op \in {"selectCell", "selectRange", "selectColumn", "selectColumnRange",
                 "selectRow"} =>
        /\ sel.activeRange \in DOMAIN sel.objs \ DOMAIN before.objs
        /\ sel.objs[sel.activeRange] = RangeOf(last.id)
        /\ sel.ranges = IF ~last.id.addToSelection \/ ~before.multiSelect
                        THEN <<sel.activeRange>>
                        ELSE Append(before.ranges, sel.activeRange)
        /\ \A i \in SeqRange(before.ranges) \cap SeqRange(sel.ranges) :
               sel.objs[i] = before.objs[i]
        /\ sel.multiSelect = before.multiSelect

\* C29: right after construction the Selection holds one single-cell range
\* at (0,0), which is active; its ranges are empty only after clearSelection
\* (or when they were empty before a call that is no select call): not after
\* toggleCell, removeRange or the multiSelect setter; and after any select
\* call they are not empty
C29_EmptyOnlyByClear ==
    /\ last.op = "new" =>
           /\ Len(sel.ranges) = 1 /\ sel.activeRange = sel.ranges[1]
           /\ sel.objs[sel.ranges[1]] = NewCellRange(0, 0, 0, 0)
    /\ last.op \in {"selectCell", "selectRange", "selectColumn", "selectColumnRange",
                    "selectRow", "selectRowRange", "selectAll"} => sel.ranges # <<>>
    /\ (last.op # "new" /\ sel.ranges = <<>>) =>
           last.op = "clearSelection" \/ before.ranges = <<>>

\* C29 as the code has it: the ranges are also empty after removeRange has
\* removed the only range, called directly or by toggleCell of a cell that
\* range contains
C29_EmptyOnlyByClearOrRemoval ==
    /\ last.op = "new" =>
           /\ Len(sel.ranges) = 1 /\ sel.activeRange = sel.ranges[1]
           /\ sel.objs[sel.ranges[1]] = NewCellRange(0, 0, 0, 0)
    /\ last.op \in {"selectCell", "selectRange", "selectColumn", "selectColumnRange",
                    "selectRow", "selectRowRange", "selectAll"} => sel.ranges # <<>>
    /\ (last.op # "new" /\ sel.ranges = <<>>) =>
           \/ last.op = "clearSelection"
           \/ before.ranges = <<>>
           \/ /\ Len(before.ranges) = 1
              /\ \/ last.op = "removeRange" /\ last.id = 0
                 \/ /\ last.op = "toggleCell"
                    /\ Contains(before.objs[before.ranges[1]], last.id[1], last.id[2])

\* toggleCell of a cell of the only range has left the ranges empty and no
\* range active
C29_Witness ==
    /\ last.op = "toggleCell" /\ Len(before.ranges) = 1
    /\ sel.ranges = <<>> /\ sel.activeRange = 0

\* C30: extendSelection(row, col) with an active range leaves the ranges
\* sequence, the active range's identity and flags and every other range as
\* they were, and the active range's bounds are the smallest rectangle that
\* contains its previous bounds and (row, col); with no active range the
\* selection is what selectCell(row, col) leaves
C30_ExtendInPlace ==
    last.op = "extendSelection" =>
        IF before.activeRange # 0
        THEN LET old == before.objs[before.activeRange]
                 new == sel.objs[sel.activeRange]
             IN /\ sel.ranges = before.ranges
                /\ sel.activeRange = before.activeRange
                /\ sel.multiSelect = before.multiSelect
                /\ new.isRowSelection = old.isRowSelection
                /\ new.isColumnSelection = old.isColumnSelection
                /\ new.startRow <= old.startRow /\ new.startRow <= last.id[1]
                /\ new.startRow \in {old.startRow, last.id[1]}
                /\ new.endRow >= old.endRow /\ new.endRow >= last.id[1]
                /\ new.endRow \in {old.endRow, last.id[1]}
                /\ new.startCol <= old.startCol /\ new.startCol <= last.id[2]
                /\ new.startCol \in {old.startCol, last.id[2]}
                /\ new.endCol >= old.endCol /\ new.endCol >= last.id[2]
                /\ new.endCol \in {old.endCol, last.id[2]}
                /\ \A i \in DOMAIN before.objs \ {before.activeRange} :
                       i \in DOMAIN sel.objs /\ sel.objs[i] = before.objs[i]
        ELSE /\ Len(sel.ranges) = 1 /\ sel.activeRange = sel.ranges[1]
             /\ sel.activeRange \notin DOMAIN before.objs
             /\ sel.objs[sel.activeRange]
                    = NewCellRange(last.id[1], last.id[2], last.id[1], last.id[2])
             /\ sel.multiSelect = before.multiSelect

\* extendSelection has grown an active row or column selection that is one
\* of several ranges
C30_Witness ==
    /\ last.op = "extendSelection" /\ before.activeRange # 0
    /\ Len(before.ranges) >= 2
    /\ before.objs[before.activeRange].isRowSelection
           \/ before.objs[before.activeRange].isColumnSelection
    /\ sel.objs[sel.activeRange] # before.objs[before.activeRange]

\* extendSelection has been called with no active range
C30_WitnessNoActive ==
    last.op = "extendSelection" /\ before.activeRange = 0 /\ sel.ranges # <<>>

C31_WitnessAdds ==
    /\ last.op = "toggleCell" /\ Len(sel.ranges) = Len(before.ranges) + 1
    /\ Len(before.ranges) >= 2

\* C32: isRowSelected(i) is true exactly when a range of the selection has
\* the row-selection flag and startRow <= i <= endRow, isColumnSelected(j)
\* exactly when a range has the column-selection flag and startCol <= j <=
\* endCol; a selection that consists of one range made by selectCell,
\* selectRange or selectAll has no selected row and no selected column
C32_RowColumnSelectedByFlag ==
    LET stored == {sel.objs[i] : i \in SeqRange(sel.ranges)}
    IN /\ \A i \in 0..MaxRows :
              IsRowSelected(sel, i)
                  <=> \E r \in stored : r.isRowSelection /\ r.startRow <= i /\ i <= r.endRow
       /\ \A j \in 0..MaxCols :
              IsColumnSelected(sel, j)
                  <=> \E r \in stored :
                          r.isColumnSelection /\ r.startCol <= j /\ j <= r.endCol
       /\ (last.op \in {"selectCell", "selectRange", "selectAll"} /\ Len(sel.ranges) = 1) =>
              /\ \A i \in 0..MaxRows : ~IsRowSelected(sel, i)
              /\ \A j \in 0..MaxCols : ~IsColumnSelected(sel, j)

\* a plain range over the whole grid, made by selectAll, stands before a
\* row selection of row 1: row 1 is selected, row 0 and column 0 are not
C32_Witness ==
    /\ Len(sel.ranges) = 2
    /\ sel.objs[sel.ranges[1]] = NewCellRange(0, 0, MaxRows - 1, MaxCols - 1)
    /\ sel.objs[sel.ranges[2]].isRowSelection
    /\ IsRowSelected(sel, 1) /\ ~IsRowSelected(sel, 0) /\ ~IsColumnSelected(sel, 0)

\* the cells of a range in row-major order, by position: the k-th is
\* (startRow + (k - 1) div width, startCol + (k - 1) mod width)
RowMajor(r) ==
    [k \in 1..((r.endRow - r.startRow + 1) * (r.endCol - r.startCol + 1)) |->
        [row |-> r.startRow + ((k - 1) \div (r.endCol - r.startCol + 1)),
         col |-> r.startCol + ((k - 1) % (r.endCol - r.startCol + 1))]]

\* the row-major cells of the ranges at positions i.. of a sequence of ranges
RECURSIVE Flattened(_, _)
Flattened(s, i) ==
    IF i > Len(s.ranges) THEN <<>>
    ELSE RowMajor(s.objs[s.ranges[i]]) \o Flattened(s, i + 1)

\* the maxCells arguments getSelectedCells is checked with
CellLimits == {0, MaxCols + 1, 10000}

\* C33: getSelectedCells(maxCells) returns the first min(maxCells, total)
\* cells of the ranges' row-major cells concatenated in the ranges' order,
\* total being the sum of the ranges' cell counts
C33_SelectedCellsTruncated ==
    \A maxCells \in CellLimits :
        LET Same(all, got) ==
                got = SubSeq(all, 1, IF maxCells < Len(all) THEN maxCells ELSE Len(all))
        IN Same(Flattened(sel, 1), GetSelectedCells(sel, maxCells))

\* two ranges that share a cell and have more than MaxCols + 1 cells
\* together: the result for MaxCols + 1 ends inside the second range and
\* the full result lists the shared cell twice
C33_Witness ==
    /\ Len(sel.ranges) >= 2
    /\ sel.objs[sel.ranges[1]].endCol > sel.objs[sel.ranges[1]].startCol
    /\ Len(RowMajor(sel.objs[sel.ranges[1]])) < MaxCols + 1
    /\ Len(Flattened(sel, 1)) > MaxCols + 1
    /\ Len(GetSelectedCells(sel, MaxCols + 1)) = MaxCols + 1
    /\ \E a, b \in 1..Len(GetSelectedCells(sel, 10000)) :
           a # b /\ GetSelectedCells(sel, 10000)[a] = GetSelectedCells(sel, 10000)[b]

(***************************************************************************)
(* Properties of a CellRange, checked under SpecRange.                     *)
(***************************************************************************)
\* C34: after construction with corners in any order and after any sequence
\* of setCellRange, setRowSelection, setColumnSelection (bound at least 1),
\* expandTo and reset, startRow <= endRow, startCol <= endCol and the
\* row-selection and column-selection flags are not both true
C34_RangeNormalised ==
    /\ rng.startRow <= rng.endRow
    /\ rng.startCol <= rng.endCol
    /\ ~(rng.isRowSelection /\ rng.isColumnSelection)

\* a range has been constructed from its bottom-right corner first
C34_Witness ==
    /\ last.op = "CellRange" /\ last.id[1] > last.id[3] /\ last.id[2] > last.id[4]
    /\ rng.startRow = last.id[3] /\ rng.endCol = last.id[2]

\* a column selection has been grown to the left by expandTo
C34_WitnessFlagged ==
    /\ last.op = "expandTo" /\ rng.isColumnSelection /\ rng.endRow = MaxRows - 1
    /\ rng.startCol = last.id[2] /\ rng.startCol < rng.endCol

\* the label of a column index in bijective base 26, by the number of
\* letters: 26 labels of one letter, 676 of two, then three
BijectiveLabel(n) ==
    IF n < 26 THEN Letters[n + 1]
    ELSE IF n < 702
    THEN Letters[((n - 26) \div 26) + 1] \o Letters[((n - 26) % 26) + 1]
    ELSE Letters[((n - 702) \div 676) + 1] \o Letters[(((n - 702) \div 26) % 26) + 1]
             \o Letters[((n - 702) % 26) + 1]

\* C35: a column index maps to bijective base-26 letters (0 to A, 25 to Z,
\* 26 to AA, 27 to AB), a row index to its 1-based decimal; a range flagged
\* as column or row selection prints its labels only (A or A:C, 1 or 1:3),
\* also when it covers a single cell; otherwise a single cell prints as
\* column label and row label (A1) and a rectangle as
\* top-left:bottom-right (A1:C3)
C35_RangeLabels ==
    /\ GetColumnLabel(0) = "A" /\ GetColumnLabel(25) = "Z"
    /\ GetColumnLabel(26) = "AA" /\ GetColumnLabel(27) = "AB"
    /\ \A n \in {0, 1, 25, 26, 27, 51, 52, 701, 702, 703, 1377, 1378} :
           GetColumnLabel(n) = BijectiveLabel(n)
    /\ GetRowLabel(0) = "1" /\ GetRowLabel(9) = "10"
    /\ GetRangeString(rng) =
           IF rng.isColumnSelection
           THEN (IF rng.startCol = rng.endCol THEN BijectiveLabel(rng.startCol)
                 ELSE BijectiveLabel(rng.startCol) \o ":" \o BijectiveLabel(rng.endCol))
           ELSE IF rng.isRowSelection
           THEN (IF rng.startRow = rng.endRow THEN ToString(rng.startRow + 1)
                 ELSE ToString(rng.startRow + 1) \o ":" \o ToString(rng.endRow + 1))
           ELSE IF rng.startRow = rng.endRow /\ rng.startCol = rng.endCol
           THEN BijectiveLabel(rng.startCol) \o ToString(rng.startRow + 1)
           ELSE BijectiveLabel(rng.startCol) \o ToString(rng.startRow + 1) \o ":"
                    \o BijectiveLabel(rng.endCol) \o ToString(rng.endRow + 1)

\* C35 for every range but a flagged range that covers a single cell
C35_RangeLabelsButFlaggedCell ==
    /\ \A n \in {0, 1, 25, 26, 27, 51, 52, 701, 702, 703, 1377, 1378} :
           GetColumnLabel(n) = BijectiveLabel(n)
    /\ ((rng.isColumnSelection \/ rng.isRowSelection) => ~IsSingleCell(rng)) =>
           GetRangeString(rng) =
               IF rng.isColumnSelection
               THEN (IF rng.startCol = rng.endCol THEN BijectiveLabel(rng.startCol)
                     ELSE BijectiveLabel(rng.startCol) \o ":" \o BijectiveLabel(rng.endCol))
               ELSE IF rng.isRowSelection
               THEN (IF rng.startRow = rng.endRow THEN ToString(rng.startRow + 1)
                     ELSE ToString(rng.startRow + 1) \o ":" \o ToString(rng.endRow + 1))
               ELSE IF rng.startRow = rng.endRow /\ rng.startCol = rng.endCol
               THEN BijectiveLabel(rng.startCol) \o ToString(rng.startRow + 1)
               ELSE BijectiveLabel(rng.startCol) \o ToString(rng.startRow + 1) \o ":"
                        \o BijectiveLabel(rng.endCol) \o ToString(rng.endRow + 1)

\* C36: a command's execute() or undo() that returns false leaves the store
\* (cell values, counts, heights and widths) as it was before the call
C36_FailureChangesNothing ==
    [][((CmdExecute \/ CmdUndo \/ CmdUndoUnexecuted) /\ last'.ret = "false")
           => View(dm') = View(dm)]_vars

\* C36 for execute() of the commands that write at most one cell
C36_SingleWriteFailureChangesNothing ==
    [][(CmdExecute /\ last'.ret = "false"
            /\ (held[1].kind = "CellEdit" => Len(held[1].data) <= 1))
           => View(dm') = View(dm)]_vars

\* C37: toggleCell(row, col) inverts the selection state of the cell:
\* isSelected(row, col) after the call is the negation of what it was before
C37_ToggleInverts ==
    last.op = "toggleCell" =>
        (IsSelected(sel, last.id[1], last.id[2])
             <=> ~IsSelected(before, last.id[1], last.id[2]))

\* C37 for a cell that at most one range contains
C37_ToggleInvertsOutsideOverlap ==
    (last.op = "toggleCell"
         /\ Cardinality({i \in 1..Len(before.ranges) :
                            Contains(before.objs[before.ranges[i]],
                                     last.id[1], last.id[2])}) <= 1) =>
        (IsSelected(sel, last.id[1], last.id[2])
             <=> ~IsSelected(before, last.id[1], last.id[2]))

\* seq in reverse order
Reversed(seq) == [i \in 1..Len(seq) |-> seq[Len(seq) + 1 - i]]

\* C38: when CommandGroup.execute() fails, the rollback calls undo() exactly
\* once on each sub-command that had succeeded, in reverse order, and on no
\* other sub-command, also when one of those undo() calls throws
C38_RollbackUndoesOnce ==
    [][\A g \in GroupArrays(created + 1, dm) :
           (Len(g) > 0 /\ ExecuteCommandGroup(g)) =>
               LET Once(r) == r.ret = "false" => r.undone = Reversed(r.executed)
               IN Once(GroupExecuteLoop(g, 1, <<>>, dm))]_vars

\* C38 for the groups whose failing sub-command throws, and for those in
\* which no undo() of the rollback throws
C38_RollbackUndoesOnceUnlessThrown ==
    [][\A g \in GroupArrays(created + 1, dm) :
           (Len(g) > 0 /\ ExecuteCommandGroup(g)) =>
               LET Once(r) ==
                       (/\ r.ret = "false"
                        /\ \/ LeafExecute(r.cmds[Len(r.executed) + 1], dm).ret = "throw"
                           \/ \A i \in SeqRange(r.executed) :
                                  g[i].kind = "Client" => g[i].onUndo # "throw")
                           => r.undone = Reversed(r.executed)
               IN Once(GroupExecuteLoop(g, 1, <<>>, dm))]_vars

(***************************************************************************)
(* Properties of the chunked bulk load, checked under SpecLoad.            *)
(***************************************************************************)
\* every header and value of the record arrays
LoadedValues ==
    UNION {SeqRange(data.headers) \cup UNION {SeqRange(data.records[i]) :
                                                 i \in 1..Len(data.records)}
           : data \in LoadArrays}

\* C39: when a bulk load has finished, whatever ran between its chunks,
\* row 0 holds the field names of its first record in field order, row
\* i + 1 holds its record i, and no cell outside these holds a value of
\* another load
C39_LoadCompleteUnmixed ==
    last.op = "loadFinished" =>
        /\ \A c \in 1..Len(last.id.headers) :
               GetCellValue(dm, 0, c - 1) = last.id.headers[c]
        /\ \A i \in 1..Len(last.id.records), c \in 1..Len(last.id.headers) :
               GetCellValue(dm, i, c - 1) = last.id.records[i][c]
        /\ \A row \in 0..(MaxRows - 1), col \in 0..(MaxCols - 1) :
               (row > Len(last.id.records) \/ col >= Len(last.id.headers)) =>
                   GetCellValue(dm, row, col) \notin LoadedValues

\* C39 for a load that fits in one chunk, so that it begins and finishes in
\* one task
C39_LoadCompleteWhenAlone ==
    (last.op = "loadFinished" /\ Len(last.id.records) <= ChunkSize) =>
        /\ \A c \in 1..Len(last.id.headers) :
               GetCellValue(dm, 0, c - 1) = last.id.headers[c]
        /\ \A i \in 1..Len(last.id.records), c \in 1..Len(last.id.headers) :
               GetCellValue(dm, i, c - 1) = last.id.records[i][c]
        /\ \A row \in 0..(MaxRows - 1), col \in 0..(MaxCols - 1) :
               (row > Len(last.id.records) \/ col >= Len(last.id.headers)) =>
                   GetCellValue(dm, row, col) \notin LoadedValues

(***************************************************************************)
(* Conservation of the two stacks under undo() and redo().                 *)
(***************************************************************************)
\* C40: undo() and redo(), successful or not, only move a command between
\* the two stacks: the stacks hold the same commands, and as many, after the
\* call as before; no command is on both stacks; a command comes onto the
\* undo stack only by a successful execute() (executeCommand, redo) and onto
\* the redo stack only by a successful undo(), and leaves the stack it was
\* on when that call succeeds, so that the undo stack holds the commands
\* whose last transition was to applied and the redo stack those whose last
\* transition was to reverted
C40_UndoRedoConserve ==
    [][/\ last'.op \in {"undo", "redo"} =>
              /\ Len(undoStack') + Len(redoStack') = Len(undoStack) + Len(redoStack)
              /\ SeqRange(Ids(undoStack' \o redoStack'))
                     = SeqRange(Ids(undoStack \o redoStack))
       /\ SeqRange(Ids(undoStack')) \cap SeqRange(Ids(redoStack')) = {}
       /\ Cardinality(SeqRange(Ids(undoStack' \o redoStack')))
              = Len(undoStack') + Len(redoStack')
       /\ \A id \in SeqRange(Ids(undoStack')) \ SeqRange(Ids(undoStack)) :
              /\ last'.op \in {"executeCommand", "executeCommandGroup", "redo"}
              /\ last'.ret = "true" /\ last'.id = id
       /\ \A id \in SeqRange(Ids(redoStack')) \ SeqRange(Ids(redoStack)) :
              last'.op = "undo" /\ last'.ret = "true" /\ last'.id = id
       /\ (last'.op = "undo" /\ last'.ret = "true") =>
              last'.id \notin SeqRange(Ids(undoStack'))
       /\ (last'.op = "redo" /\ last'.ret = "true") =>
              last'.id \notin SeqRange(Ids(redoStack'))]_vars

\* a redo() whose command failed has put the command back on top of the redo
\* stack, beside a command on the undo stack
C40_Witness ==
    /\ last.op = "redo" /\ last.ret = "false"
    /\ Len(redoStack) > 0 /\ Top(redoStack).id = last.id
    /\ Len(undoStack) > 0

====
